---- MODULE Spec2Model ----
(***************************************************************************)
(* Model of the graph annotation passes of flexnas/graph/annotation.py:    *)
(* add_node_properties, add_features_calculator, associate_input_features, *)
(* run in that order on a torch.fx graph, together with the node           *)
(* predicates and graph helpers they call.                                 *)
(*                                                                         *)
(* A graph is a sequence of node records in fx order (fx keeps the nodes   *)
(* of a graph in definition order, so every input of a node precedes it).  *)
(* One step of the model is one iteration of a pass' "while queue" loop,   *)
(* or the return of a pass followed by the first lines of the next one.    *)
(***************************************************************************)
EXTENDS Integers, Sequences, FiniteSets, TLC

VARIABLES g, extra_rules, pass, run, queue, popped, event, flags, heap, fc, ifsb,
          err, errNode, first, called, deferred, sn

vars == <<g, extra_rules, pass, run, queue, popped, event, flags, heap, fc, ifsb,
          err, errNode, first, called, deferred, sn>>

(***************************************************************************)
(* Bounds of the model.                                                    *)
(***************************************************************************)
\* number of nodes of the graphs of the general family
MaxNodes == 3
\* largest rank of the input of the reshape chains
MaxRank == 4
\* largest number of nodes between a node and the edge that leads back to it
MaxRing == 2

(***************************************************************************)
(* Optional values (None / a value), as returned by try_get_args.          *)
(***************************************************************************)
None == <<>>
Some(v) == <<v>>

(***************************************************************************)
(* Sequence helpers.                                                       *)
(***************************************************************************)
Range(s) == {s[i] : i \in DOMAIN s}

RECURSIVE Prod(_)
Prod(s) == IF s = <<>> THEN 1 ELSE Head(s) * Prod(Tail(s))

\* Python slice s[lo:hi] (0-based, hi exclusive, negative hi from the end,
\* hi = None as <<>>), clamped as Python clamps slices
PySlice(s, lo, hiOpt) ==
    LET n == Len(s)
        hiRaw == IF hiOpt = None THEN n ELSE hiOpt[1]
        hiAbs == IF hiRaw < 0 THEN n + hiRaw ELSE hiRaw
        hi == IF hiAbs < 0 THEN 0 ELSE IF hiAbs > n THEN n ELSE hiAbs
    IN IF hi <= lo THEN <<>> ELSE SubSeq(s, lo + 1, hi)

(***************************************************************************)
(* Nodes.  op/target as in torch.fx; inputs is n.all_input_nodes (indices  *)
(* of earlier nodes, without repetition); args holds n.args after the      *)
(* tensor operand, kwargs the keyword arguments; an argument value is      *)
(* Some(v) for the integer v and None for Python's None; shape is          *)
(* n.meta['tensor_meta'].shape as left by shape propagation.               *)
(***************************************************************************)
Node(op, target, inputs, args, kwargs, shape) ==
    [op |-> op, target |-> target, inputs |-> inputs, args |-> args,
     kwargs |-> kwargs, shape |-> shape]

NoKw == [k \in {} |-> 0]
Kw(k, v) == [x \in {k} |-> v]

\* n.kwargs.get(kwargs_str): None when the keyword is absent
KwGet(n, kwargs_str) ==
    IF kwargs_str \in DOMAIN n.kwargs THEN n.kwargs[kwargs_str] ELSE None

\* try_get_args(n, args_idx, kwargs_str, default): args[0] is the tensor
\* operand; a positional argument is returned as it is, a keyword argument
\* only when it is not None
try_get_args(n, args_idx, kwargs_str, default) ==
    IF 1 + Len(n.args) > args_idx
    THEN n.args[args_idx]
    ELSE LET arg == KwGet(n, kwargs_str)
         IN IF arg # None THEN arg ELSE default

(***************************************************************************)
(* Node predicates (flexnas/utils/model_graph.py).                         *)
(***************************************************************************)
\* mutant of is_zero_or_one_input_op: only a node without inputs counts
is_zero_or_one_input_op_NoInput(n) == Len(n.inputs) = 0

is_zero_or_one_input_op(n) == Len(n.inputs) <= 1

is_shared_input_features_op(n) ==
    IF is_zero_or_one_input_op(n) THEN FALSE
    ELSE /\ n.op = "call_function"
         /\ n.target \in {"torch.add", "operator.add", "torch.sub", "operator.sub"}

is_features_defining_op(n) ==
    \/ n.op = "placeholder" /\ Len(n.inputs) = 0
    \/ n.op = "call_module" /\ n.target \in {"Conv1d", "Conv2d", "Linear"}

\* mutant of is_features_propagating_op: a convolution is taken to propagate
\* its features as well
is_features_propagating_op_WithConv(n) ==
    \/ n.op = "output"
    \/ /\ n.op = "call_module"
       /\ n.target \in {"BatchNorm1d", "BatchNorm2d", "AvgPool1d", "AvgPool2d",
                        "MaxPool1d", "Dropout", "ReLU", "ReLU6", "ConstantPad1d",
                        "ConstantPad2d", "Conv2d"}
    \/ /\ n.op = "call_function"
       /\ n.target \in {"F.relu", "F.relu6", "F.log_softmax"}

is_features_propagating_op(n) ==
    \/ n.op = "output"
    \/ /\ n.op = "call_module"
       /\ n.target \in {"BatchNorm1d", "BatchNorm2d", "AvgPool1d", "AvgPool2d",
                        "MaxPool1d", "Dropout", "ReLU", "ReLU6", "ConstantPad1d",
                        "ConstantPad2d"}
    \/ /\ n.op = "call_function"
       /\ n.target \in {"F.relu", "F.relu6", "F.log_softmax"}

is_flatten(n) ==
    \/ n.op = "call_method" /\ n.target = "flatten"
    \/ n.op = "call_function" /\ n.target = "torch.flatten"

is_concatenate(n) == n.op = "call_function" /\ n.target = "torch.cat"

\* the predicates annotation.py takes from its inspection module
is_squeeze(n) ==
    \/ n.op = "call_method" /\ n.target = "squeeze"
    \/ n.op = "call_function" /\ n.target = "torch.squeeze"

is_features_concatenate(n) ==
    is_concatenate(n) /\ try_get_args(n, 1, "dim", Some(0)) = Some(1)

is_untouchable_op(n) == n.op = "output"

FlagNames == {"features_propagating", "features_defining", "shared_input_features",
              "flatten", "squeeze", "features_concatenate", "untouchable",
              "zero_or_one_input"}

SemanticFlags == {"features_propagating", "features_defining",
                  "shared_input_features", "flatten", "squeeze",
                  "features_concatenate"}

\* mutant of NodeProperties: a node that nothing else classifies is taken to
\* propagate its features
NodeProperties_DefaultPropagating(n) ==
    [f \in FlagNames |->
        CASE f = "features_propagating" ->
                 \/ is_features_propagating_op(n)
                 \/ ~(\/ is_features_defining_op(n) \/ is_shared_input_features_op(n)
                      \/ is_flatten(n) \/ is_squeeze(n) \/ is_features_concatenate(n))
          [] f = "features_defining" -> is_features_defining_op(n)
          [] f = "shared_input_features" -> is_shared_input_features_op(n)
          [] f = "flatten" -> is_flatten(n)
          [] f = "squeeze" -> is_squeeze(n)
          [] f = "features_concatenate" -> is_features_concatenate(n)
          [] f = "untouchable" -> is_untouchable_op(n)
          [] f = "zero_or_one_input" -> is_zero_or_one_input_op(n)]

\* the eight assignments of one visit of add_node_properties
NodeProperties(n) ==
    [f \in FlagNames |->
        CASE f = "features_propagating" -> is_features_propagating_op(n)
          [] f = "features_defining" -> is_features_defining_op(n)
          [] f = "shared_input_features" -> is_shared_input_features_op(n)
          [] f = "flatten" -> is_flatten(n)
          [] f = "squeeze" -> is_squeeze(n)
          [] f = "features_concatenate" -> is_features_concatenate(n)
          [] f = "untouchable" -> is_untouchable_op(n)
          [] f = "zero_or_one_input" -> is_zero_or_one_input_op(n)]

(***************************************************************************)
(* Graph helpers.                                                          *)
(***************************************************************************)
NodeIds(gr) == 1 .. Len(gr)

\* get_input_nodes: the placeholders, in graph order
RECURSIVE PlaceholdersFrom(_, _)
PlaceholdersFrom(gr, i) ==
    IF i > Len(gr) THEN <<>>
    ELSE (IF gr[i].op = "placeholder" THEN <<i>> ELSE <<>>)
         \o PlaceholdersFrom(gr, i + 1)

\* mutant of get_input_nodes: only the first placeholder is returned
get_input_nodes_FirstOnly(gr) ==
    IF PlaceholdersFrom(gr, 1) = <<>> THEN <<>>
    ELSE <<Head(PlaceholdersFrom(gr, 1))>>

get_input_nodes(gr) == PlaceholdersFrom(gr, 1)

\* fx_to_nx_graph: only edges are added, so the nodes of the nx graph are
\* the end points of edges
NxNodes(gr) ==
    {i \in NodeIds(gr) : \/ Len(gr[i].inputs) > 0
                         \/ \E j \in NodeIds(gr) : i \in Range(gr[j].inputs)}

\* nx_graph.successors(n), in the order the edges were added
RECURSIVE SuccessorsFrom(_, _, _)
SuccessorsFrom(gr, n, j) ==
    IF j > Len(gr) THEN <<>>
    ELSE (IF n \in Range(gr[j].inputs) THEN <<j>> ELSE <<>>)
         \o SuccessorsFrom(gr, n, j + 1)

\* mutant of successors: every successor is listed twice
successors_Twice(gr, n) == SuccessorsFrom(gr, n, 1) \o SuccessorsFrom(gr, n, 1)

\* mutant of successors: only the first successor is listed
successors_FirstOnly(gr, n) ==
    IF SuccessorsFrom(gr, n, 1) = <<>> THEN <<>>
    ELSE <<Head(SuccessorsFrom(gr, n, 1))>>

\* mutant of successors: only the last successor is listed
successors_LastOnly(gr, n) ==
    IF SuccessorsFrom(gr, n, 1) = <<>> THEN <<>>
    ELSE <<SuccessorsFrom(gr, n, 1)[Len(SuccessorsFrom(gr, n, 1))]>>

successors(gr, n) == SuccessorsFrom(gr, n, 1)

(***************************************************************************)
(* Shapes, as the shape propagation that runs before the passes leaves     *)
(* them in n.meta['tensor_meta'] (dim 0 = batch, dim 1 = channels).        *)
(* NoShape marks an operation the framework itself rejects.                *)
(***************************************************************************)
NoShape == <<>>

NormDim(d, rank) == IF d < 0 THEN d + rank ELSE d

\* torch.flatten(x, start_dim, end_dim)
FlattenShape(sh, start_dim, end_dim) ==
    LET r == Len(sh)
        s == NormDim(start_dim, r)
        e == NormDim(end_dim, r)
    IN IF sh = NoShape \/ s < 0 \/ e >= r \/ s > e THEN NoShape
       ELSE SubSeq(sh, 1, s) \o <<Prod(SubSeq(sh, s + 1, e + 1))>>
            \o SubSeq(sh, e + 2, r)

RECURSIVE DropOnes(_)
DropOnes(sh) ==
    IF sh = <<>> THEN <<>>
    ELSE (IF Head(sh) = 1 THEN <<>> ELSE <<Head(sh)>>) \o DropOnes(Tail(sh))

\* x.squeeze(dim) / x.squeeze()
SqueezeShape(sh, dimOpt) ==
    IF sh = NoShape THEN NoShape
    ELSE IF dimOpt = None THEN DropOnes(sh)
    ELSE LET r == Len(sh)
             d == NormDim(dimOpt[1], r)
         IN IF d < 0 \/ d >= r THEN NoShape
            ELSE IF sh[d + 1] = 1 THEN SubSeq(sh, 1, d) \o SubSeq(sh, d + 2, r)
            ELSE sh

\* torch.cat((a, b), dim=1)
CatShape(a, b) ==
    IF a = NoShape \/ b = NoShape \/ Len(a) # Len(b) \/ Len(a) < 2 THEN NoShape
    ELSE IF \E i \in DOMAIN a : i # 2 /\ a[i] # b[i] THEN NoShape
    ELSE [a EXCEPT ![2] = a[2] + b[2]]

\* a convolution with cout output channels on a (batch, channels, ...) input
ConvShape(sh, cout) ==
    IF Len(sh) < 3 THEN NoShape ELSE [sh EXCEPT ![2] = cout]

\* element-wise operation on two operands (equal shapes, or a broadcast scalar)
BinaryShape(a, b) ==
    IF a = NoShape \/ b = NoShape THEN NoShape
    ELSE IF a = b \/ b = <<1>> THEN a
    ELSE IF a = <<1>> THEN b
    ELSE NoShape

(***************************************************************************)
(* Node templates: what a node is before it is wired into a graph.         *)
(***************************************************************************)
Tpl(op, target, arity, args, kwargs) ==
    [op |-> op, target |-> target, arity |-> arity, args |-> args, kwargs |-> kwargs]

TPlaceholder == Tpl("placeholder", "x", 0, <<>>, NoKw)
TGetAttr == Tpl("get_attr", "weight", 0, <<>>, NoKw)
TConv == Tpl("call_module", "Conv2d", 1, <<>>, NoKw)
TReLU == Tpl("call_module", "ReLU", 1, <<>>, NoKw)
TOutput == Tpl("output", "output", 1, <<>>, NoKw)
TAdd == Tpl("call_function", "torch.add", 2, <<>>, NoKw)
TAddConst == Tpl("call_function", "operator.add", 1, <<>>, NoKw)
TCat == Tpl("call_function", "torch.cat", 2, <<Some(1)>>, NoKw)
TMul == Tpl("call_function", "torch.mul", 1, <<>>, NoKw)
TMul2 == Tpl("call_function", "torch.mul", 2, <<>>, NoKw)
TFlatten(args, kwargs) == Tpl("call_function", "torch.flatten", 1, args, kwargs)
TSqueeze(args, kwargs) == Tpl("call_method", "squeeze", 1, args, kwargs)

\* shape of the input tensors of the general family, of parameters, and the
\* output channels of the convolution at position i
InputShape == <<1, 2, 1, 3>>
AttrShape == <<1>>
ConvChannels(i) == i + 1

\* the shape of a node built from template t at position i on inputs ins of gr
ShapeOf(gr, t, ins, i, inShape) ==
    LET p(k) == gr[ins[k]].shape
    IN CASE t.op = "placeholder" -> inShape
         [] t.op = "get_attr" -> AttrShape
         [] t.op = "call_module" /\ t.target = "Conv2d" -> ConvShape(p(1), ConvChannels(i))
         [] is_flatten(t) ->
                FlattenShape(p(1), try_get_args(t, 1, "start_dim", Some(0))[1],
                             try_get_args(t, 2, "end_dim", Some(-1))[1])
         [] is_squeeze(t) -> SqueezeShape(p(1), try_get_args(t, 1, "dim", None))
         [] is_concatenate(t) /\ t.arity = 2 -> CatShape(p(1), p(2))
         [] t.arity = 2 -> BinaryShape(p(1), p(2))
         [] OTHER -> p(1)

\* the ways to pick the ordered, repetition-free inputs of a node at position i
InputChoices(arity, i) ==
    CASE arity = 0 -> {<<>>}
      [] arity = 1 -> {<<a>> : a \in 1 .. (i - 1)}
      [] OTHER -> {<<a, b>> : a \in 1 .. (i - 1), b \in 1 .. (i - 1)} \
                  {<<a, a>> : a \in 1 .. (i - 1)}

\* gr extended by one node of a template of ts, in every well-shaped way
Extend(gr, ts, inShape) ==
    LET i == Len(gr) + 1
    IN {Append(gr, Node(t.op, t.target, ins, t.args, t.kwargs,
                        ShapeOf(gr, t, ins, i, inShape))) :
           <<t, ins>> \in {c \in UNION {{<<t, ins>> : ins \in InputChoices(t.arity, i)}
                                          : t \in ts} :
                             ShapeOf(gr, c[1], c[2], i, inShape) # NoShape}}

ExtendAll(grs, ts, inShape) == UNION {Extend(gr, ts, inShape) : gr \in grs}

RECURSIVE GraphsOfSize(_, _, _)
GraphsOfSize(k, ts, inShape) ==
    IF k = 1
    THEN {<<Node("placeholder", "x", <<>>, <<>>, NoKw, inShape)>>}
    ELSE ExtendAll(GraphsOfSize(k - 1, ts, inShape), ts, inShape)

\* the general family: every graph of 1 .. MaxNodes nodes over these templates
GeneralTemplates ==
    {TPlaceholder, TGetAttr, TConv, TReLU, TOutput, TAdd, TAddConst, TCat, TMul,
     TMul2, TFlatten(<<Some(1)>>, NoKw), TSqueeze(<<Some(1)>>, NoKw)}

GeneralGraphs ==
    UNION {GraphsOfSize(k, GeneralTemplates, InputShape) : k \in 1 .. MaxNodes}

(***************************************************************************)
(* Feature calculators.  Calculators are objects: heap holds every object  *)
(* created so far and fc[n] is the index of the object stored in           *)
(* n.meta['features_calculator'] (0 while the key is absent).  Assigning   *)
(* a predecessor's calculator to a node makes both refer to one object.    *)
(***************************************************************************)
ConstFeaturesCalculator(c) ==
    [kind |-> "Const", val |-> c, refs |-> <<>>]
FlattenFeaturesCalculator(ifc, mult) ==
    [kind |-> "Flatten", val |-> mult, refs |-> <<ifc>>]
ConcatFeaturesCalculator(ifcs) ==
    [kind |-> "Concat", val |-> 0, refs |-> ifcs]
\* a calculator made by an extension rule
RuleFeaturesCalculator(c) ==
    [kind |-> "Rule", val |-> c, refs |-> <<>>]

\* the 'features' property of the calculator object id of heap h
RECURSIVE Features(_, _)
RECURSIVE SumFeatures(_, _)
SumFeatures(h, ids) ==
    IF ids = <<>> THEN 0 ELSE Features(h, Head(ids)) + SumFeatures(h, Tail(ids))
Features(h, id) ==
    CASE h[id].kind = "Flatten" -> Features(h, h[id].refs[1]) * h[id].val
      [] h[id].kind = "Concat" -> SumFeatures(h, h[id].refs)
      [] OTHER -> h[id].val

(***************************************************************************)
(* Extension rules: a rule answers for the nodes of some targets with a    *)
(* calculator of its own, and with None for every other node.              *)
(***************************************************************************)
Rule(targets, val) == [targets |-> targets, val |-> val]

ApplyRule(rule, n) ==
    IF n.target \in rule.targets THEN Some(RuleFeaturesCalculator(rule.val)) ELSE None

\* mutant of FirstRule: the last rule that answers wins
RECURSIVE FirstRule_LastWins(_, _)
FirstRule_LastWins(rules, n) ==
    IF rules = <<>> THEN None
    ELSE IF FirstRule_LastWins(Tail(rules), n) # None
    THEN FirstRule_LastWins(Tail(rules), n)
    ELSE ApplyRule(Head(rules), n)

\* "for rule in extra_rules: fc = rule(n, mod); if fc: break"
RECURSIVE FirstRule(_, _)
FirstRule(rules, n) ==
    IF rules = <<>> THEN None
    ELSE IF ApplyRule(Head(rules), n) # None THEN ApplyRule(Head(rules), n)
    ELSE FirstRule(Tail(rules), n)

\* the rules that loop calls for node n, by position in the list: every rule
\* up to and including the first one that answers
RECURSIVE RulesCalledFrom(_, _, _)
RulesCalledFrom(rules, n, k) ==
    IF k > Len(rules) THEN <<>>
    ELSE <<k>> \o (IF ApplyRule(rules[k], n) # None THEN <<>>
                   ELSE RulesCalledFrom(rules, n, k + 1))

RulesCalled(rules, n) == RulesCalledFrom(rules, n, 1)

(***************************************************************************)
(* Outcomes of one loop iteration: an exception, a new calculator object,  *)
(* or the calculator object of another node.                               *)
(***************************************************************************)
Raise(e) == [out |-> "raise", err |-> e]
New(obj) == [out |-> "new", obj |-> obj]
Alias(id) == [out |-> "alias", id |-> id]

HasFlags(fl, i) == DOMAIN fl[i] # {}
NoFlags == <<>>

\* mutant of DropDeferred: the skipped node is put back at the tail
DropDeferred_Requeue(q) == Append(Tail(q), Head(q))

\* add_features_calculator, lines 69 and 77-78: the queue after "n = queue.pop(0)"
\* and "continue"
DropDeferred(q) == Tail(q)

\* mutant of skip_flag: no node is ever taken as not ready
skip_flag_Never(gr, calc, i) == FALSE

\* mutant of skip_flag: only the first predecessor is looked at
skip_flag_FirstInputOnly(gr, calc, i) ==
    gr[i].inputs # <<>> /\ calc[gr[i].inputs[1]] = 0

\* mutant of skip_flag: a node that already carries a calculator is processed
\* again only if it is features-defining
skip_flag_KeepsDerived(gr, calc, i) ==
    \/ \E k \in DOMAIN gr[i].inputs : calc[gr[i].inputs[k]] = 0
    \/ calc[i] # 0 /\ ~is_features_defining_op(gr[i])

\* add_features_calculator, line 73-76: some predecessor has no calculator yet
skip_flag(gr, calc, i) ==
    \E k \in DOMAIN gr[i].inputs : calc[gr[i].inputs[k]] = 0

\* mutant of FlattenRule: the product of the merged extents starts at the
\* channel dimension itself
FlattenRule_FromChannelDim(gr, calc, i) ==
    LET n == gr[i]
        ifc == calc[n.inputs[1]]
        input_shape == gr[n.inputs[1]].shape
        start_dim == try_get_args(n, 1, "start_dim", Some(0))
        end_dim == try_get_args(n, 2, "end_dim", Some(-1))
    IN IF start_dim = None THEN Raise("TypeError")
       ELSE IF ~(start_dim[1] # 0 /\ Len(input_shape) - start_dim[1] # 0)
       THEN Raise("AssertionError")
       ELSE IF start_dim[1] = 1 \/ Len(input_shape) - start_dim[1] = 1
       THEN New(FlattenFeaturesCalculator(ifc,
                   Prod(PySlice(input_shape, 1,
                                IF end_dim # Some(-1) THEN end_dim ELSE None))))
       ELSE Alias(ifc)

\* mutant of FlattenRule: the upstream calculator is read from the node's own
\* meta when it is there
FlattenRule_OwnCalculator(gr, calc, i) ==
    LET n == gr[i]
        ifc == IF calc[i] # 0 THEN calc[i] ELSE calc[n.inputs[1]]
        input_shape == gr[n.inputs[1]].shape
        start_dim == try_get_args(n, 1, "start_dim", Some(0))
        end_dim == try_get_args(n, 2, "end_dim", Some(-1))
    IN IF start_dim = None THEN Raise("TypeError")
       ELSE IF ~(start_dim[1] # 0 /\ Len(input_shape) - start_dim[1] # 0)
       THEN Raise("AssertionError")
       ELSE IF start_dim[1] = 1 \/ Len(input_shape) - start_dim[1] = 1
       THEN New(FlattenFeaturesCalculator(ifc,
                   Prod(PySlice(input_shape, 2,
                                IF end_dim # Some(-1) THEN end_dim ELSE None))))
       ELSE Alias(ifc)

\* the flatten branch, lines 92-103
FlattenRule(gr, calc, i) ==
    LET n == gr[i]
        ifc == calc[n.inputs[1]]
        input_shape == gr[n.inputs[1]].shape
        start_dim == try_get_args(n, 1, "start_dim", Some(0))
        end_dim == try_get_args(n, 2, "end_dim", Some(-1))
    IN IF start_dim = None THEN Raise("TypeError")
       ELSE IF ~(start_dim[1] # 0 /\ Len(input_shape) - start_dim[1] # 0)
       THEN Raise("AssertionError")
       ELSE IF start_dim[1] = 1 \/ Len(input_shape) - start_dim[1] = 1
       THEN New(FlattenFeaturesCalculator(ifc,
                   Prod(PySlice(input_shape, 2,
                                IF end_dim # Some(-1) THEN end_dim ELSE None))))
       ELSE Alias(ifc)

\* mutant of SqueezeRule: the multiplier is the extent after input_shape[2]
SqueezeRule_NextExtent(gr, calc, i) ==
    LET n == gr[i]
        ifc == calc[n.inputs[1]]
        input_shape == gr[n.inputs[1]].shape
        dim == try_get_args(n, 1, "dim", None)
    IN IF dim = None THEN Raise("ValueError: Squeeze without dim")
       ELSE IF ~(dim[1] # 0 /\ Len(input_shape) - dim[1] # 0)
       THEN Raise("AssertionError")
       ELSE IF dim[1] = 1 \/ Len(input_shape) - dim[1] = 1
       THEN (IF Len(input_shape) < 4 THEN Raise("IndexError")
             ELSE New(FlattenFeaturesCalculator(ifc, input_shape[4])))
       ELSE Alias(ifc)

\* mutant of SqueezeRule: the multiplier is the extent of the channel
\* dimension, input_shape[1]
SqueezeRule_ChannelExtent(gr, calc, i) ==
    LET n == gr[i]
        ifc == calc[n.inputs[1]]
        input_shape == gr[n.inputs[1]].shape
        dim == try_get_args(n, 1, "dim", None)
    IN IF dim = None THEN Raise("ValueError: Squeeze without dim")
       ELSE IF ~(dim[1] # 0 /\ Len(input_shape) - dim[1] # 0)
       THEN Raise("AssertionError")
       ELSE IF dim[1] = 1 \/ Len(input_shape) - dim[1] = 1
       THEN (IF Len(input_shape) < 2 THEN Raise("IndexError")
             ELSE New(FlattenFeaturesCalculator(ifc, input_shape[2])))
       ELSE Alias(ifc)

\* mutant of SqueezeRule: a squeeze without dim is taken as a squeeze of the
\* channel dimension
SqueezeRule_DefaultDim(gr, calc, i) ==
    LET n == gr[i]
        ifc == calc[n.inputs[1]]
        input_shape == gr[n.inputs[1]].shape
        dim == try_get_args(n, 1, "dim", Some(1))
    IN IF ~(dim[1] # 0 /\ Len(input_shape) - dim[1] # 0)
       THEN Raise("AssertionError")
       ELSE IF dim[1] = 1 \/ Len(input_shape) - dim[1] = 1
       THEN (IF Len(input_shape) < 3 THEN Raise("IndexError")
             ELSE New(FlattenFeaturesCalculator(ifc, input_shape[3])))
       ELSE Alias(ifc)

\* the squeeze branch, lines 106-117
SqueezeRule(gr, calc, i) ==
    LET n == gr[i]
        ifc == calc[n.inputs[1]]
        input_shape == gr[n.inputs[1]].shape
        dim == try_get_args(n, 1, "dim", None)
    IN IF dim = None THEN Raise("ValueError: Squeeze without dim")
       ELSE IF ~(dim[1] # 0 /\ Len(input_shape) - dim[1] # 0)
       THEN Raise("AssertionError")
       ELSE IF dim[1] = 1 \/ Len(input_shape) - dim[1] = 1
       THEN (IF Len(input_shape) < 3 THEN Raise("IndexError")
             ELSE New(FlattenFeaturesCalculator(ifc, input_shape[3])))
       ELSE Alias(ifc)

\* mutant of ConcatRule: only the first predecessor's calculator is listed
ConcatRule_FirstOnly(gr, calc, i) ==
    New(ConcatFeaturesCalculator(<<calc[gr[i].inputs[1]]>>))

\* the concatenate branch, lines 123-126
ConcatRule(gr, calc, i) ==
    New(ConcatFeaturesCalculator([k \in DOMAIN gr[i].inputs |-> calc[gr[i].inputs[k]]]))

\* the shared-input branch, line 132
\* mutant of SharedInputRule: the calculator of the last predecessor is taken
SharedInputRule_LastInput(gr, calc, i) == Alias(calc[gr[i].inputs[Len(gr[i].inputs)]])

SharedInputRule(gr, calc, i) == Alias(calc[gr[i].inputs[1]])

\* the features-defining branch, line 136
DefiningRule(gr, calc, i) ==
    IF Len(gr[i].shape) < 2 THEN Raise("IndexError")
    ELSE New(ConstFeaturesCalculator(gr[i].shape[2]))

\* mutant of PropagatingRule: the calculator of the first node of the graph
\* is taken instead of the predecessor's
PropagatingRule_FromGraphInput(gr, calc, i) ==
    IF gr[i].inputs = <<>> THEN Raise("IndexError")
    ELSE Alias(calc[1])

\* the features-propagating branch, line 141
PropagatingRule(gr, calc, i) ==
    IF gr[i].inputs = <<>> THEN Raise("IndexError")
    ELSE Alias(calc[gr[i].inputs[1]])

\* the if/elif chain of lines 80-143 for node i, whose predecessors are ready
BuildCalculator(gr, rules, fl, calc, i) ==
    IF FirstRule(rules, gr[i]) # None THEN New(FirstRule(rules, gr[i])[1])
    ELSE IF ~HasFlags(fl, i) THEN Raise("KeyError")
    ELSE IF fl[i]["flatten"] THEN FlattenRule(gr, calc, i)
    ELSE IF fl[i]["squeeze"] THEN SqueezeRule(gr, calc, i)
    ELSE IF fl[i]["features_concatenate"] THEN ConcatRule(gr, calc, i)
    ELSE IF fl[i]["shared_input_features"] THEN SharedInputRule(gr, calc, i)
    ELSE IF fl[i]["features_defining"] THEN DefiningRule(gr, calc, i)
    ELSE IF fl[i]["features_propagating"] THEN PropagatingRule(gr, calc, i)
    ELSE Raise("ValueError: Unsupported node")

(***************************************************************************)
(* Back-references: n.meta['input_features_set_by'] is absent, one node,   *)
(* or (for a concatenation) the list of the node's inputs.                 *)
(***************************************************************************)
NoRef == [tag |-> "unset", ref |-> <<>>]
NodeRef(i) == [tag |-> "node", ref |-> <<i>>]
ListRef(is) == [tag |-> "list", ref |-> is]

Set(r) == [out |-> "set", ref |-> r]
Nothing == [out |-> "nothing"]

\* mutant of AssocFlatten: the flatten's own back-reference is always forwarded
AssocFlatten_AlwaysForward(gr, refs, prev) ==
    LET input_shape == gr[gr[prev].inputs[1]].shape
        start_dim == try_get_args(gr[prev], 1, "start_dim", Some(0))
    IN IF start_dim = None THEN Raise("TypeError")
       ELSE IF ~(start_dim[1] # 0 /\ Len(input_shape) - start_dim[1] # 0)
       THEN Raise("AssertionError")
       ELSE Set(refs[prev])

\* lines 175-184: the predecessor prev is a flatten
AssocFlatten(gr, refs, prev) ==
    LET input_shape == gr[gr[prev].inputs[1]].shape
        start_dim == try_get_args(gr[prev], 1, "start_dim", Some(0))
    IN IF start_dim = None THEN Raise("TypeError")
       ELSE IF ~(start_dim[1] # 0 /\ Len(input_shape) - start_dim[1] # 0)
       THEN Raise("AssertionError")
       ELSE IF start_dim[1] = 1 \/ Len(input_shape) - start_dim[1] = 1
       THEN Set(NodeRef(prev))
       ELSE Set(refs[prev])

\* mutant of AssocSqueeze: the node after a squeeze always points at it
AssocSqueeze_AlwaysPrev(gr, refs, prev) ==
    LET input_shape == gr[gr[prev].inputs[1]].shape
        dim == try_get_args(gr[prev], 1, "dim", None)
    IN IF dim = None THEN Raise("ValueError: Squeeze without dim")
       ELSE IF ~(dim[1] # 0 /\ Len(input_shape) - dim[1] # 0)
       THEN Raise("AssertionError")
       ELSE Set(NodeRef(prev))

\* lines 185-195: the predecessor prev is a squeeze
AssocSqueeze(gr, refs, prev) ==
    LET input_shape == gr[gr[prev].inputs[1]].shape
        dim == try_get_args(gr[prev], 1, "dim", None)
    IN IF dim = None THEN Raise("ValueError: Squeeze without dim")
       ELSE IF ~(dim[1] # 0 /\ Len(input_shape) - dim[1] # 0)
       THEN Raise("AssertionError")
       ELSE IF dim[1] = 1 \/ Len(input_shape) - dim[1] = 1
       THEN Set(NodeRef(prev))
       ELSE Set(refs[prev])

\* mutant of AssocByPrev: a concatenation forwards its own back-reference
AssocByPrev_ForwardConcat(gr, fl, refs, i) ==
    LET prev == gr[i].inputs[1]
    IN IF refs[prev] = NoRef THEN Nothing
       ELSE IF ~HasFlags(fl, prev) THEN Raise("KeyError")
       ELSE IF fl[prev]["flatten"] THEN AssocFlatten(gr, refs, prev)
       ELSE IF fl[prev]["squeeze"] THEN AssocSqueeze(gr, refs, prev)
       ELSE IF fl[prev]["features_concatenate"] THEN Set(refs[prev])
       ELSE IF fl[prev]["features_defining"] THEN Set(NodeRef(prev))
       ELSE IF fl[prev]["features_propagating"] THEN Set(refs[prev])
       ELSE Raise("ValueError: Unsupported node")

\* mutant of AssocByPrev: the commented-out branch of lines 204-205 is live, a
\* shared-input predecessor forwards its own back-reference
AssocByPrev_ForwardShared(gr, fl, refs, i) ==
    LET prev == gr[i].inputs[1]
    IN IF refs[prev] = NoRef THEN Nothing
       ELSE IF ~HasFlags(fl, prev) THEN Raise("KeyError")
       ELSE IF fl[prev]["flatten"] THEN AssocFlatten(gr, refs, prev)
       ELSE IF fl[prev]["squeeze"] THEN AssocSqueeze(gr, refs, prev)
       ELSE IF fl[prev]["features_concatenate"] THEN Set(NodeRef(prev))
       ELSE IF fl[prev]["features_defining"] THEN Set(NodeRef(prev))
       ELSE IF fl[prev]["features_propagating"] THEN Set(refs[prev])
       ELSE IF fl[prev]["shared_input_features"] THEN Set(refs[prev])
       ELSE Raise("ValueError: Unsupported node")

\* mutant of AssocByPrev: a features-defining predecessor forwards its own
\* back-reference
AssocByPrev_ForwardDefining(gr, fl, refs, i) ==
    LET prev == gr[i].inputs[1]
    IN IF refs[prev] = NoRef THEN Nothing
       ELSE IF ~HasFlags(fl, prev) THEN Raise("KeyError")
       ELSE IF fl[prev]["flatten"] THEN AssocFlatten(gr, refs, prev)
       ELSE IF fl[prev]["squeeze"] THEN AssocSqueeze(gr, refs, prev)
       ELSE IF fl[prev]["features_concatenate"] THEN Set(NodeRef(prev))
       ELSE IF fl[prev]["features_defining"] THEN Set(refs[prev])
       ELSE IF fl[prev]["features_propagating"] THEN Set(refs[prev])
       ELSE Raise("ValueError: Unsupported node")

\* lines 173-210: a node that is no concatenation, by its first predecessor
AssocByPrev(gr, fl, refs, i) ==
    LET prev == gr[i].inputs[1]
    IN IF refs[prev] = NoRef THEN Nothing
       ELSE IF ~HasFlags(fl, prev) THEN Raise("KeyError")
       ELSE IF fl[prev]["flatten"] THEN AssocFlatten(gr, refs, prev)
       ELSE IF fl[prev]["squeeze"] THEN AssocSqueeze(gr, refs, prev)
       ELSE IF fl[prev]["features_concatenate"] THEN Set(NodeRef(prev))
       ELSE IF fl[prev]["features_defining"] THEN Set(NodeRef(prev))
       ELSE IF fl[prev]["features_propagating"] THEN Set(refs[prev])
       ELSE Raise("ValueError: Unsupported node")

\* lines 166-171: a concatenation
AssocConcat(gr, refs, i) ==
    IF \E k \in DOMAIN gr[i].inputs : refs[gr[i].inputs[k]] = NoRef
    THEN Nothing
    ELSE Set(ListRef(gr[i].inputs))

\* lines 163-212 for node i
InputFeaturesSetBy(gr, fl, refs, i) ==
    IF Len(gr[i].inputs) > 0
    THEN IF ~HasFlags(fl, i) THEN Raise("KeyError")
         ELSE IF fl[i]["features_concatenate"] THEN AssocConcat(gr, refs, i)
         ELSE AssocByPrev(gr, fl, refs, i)
    ELSE Set(NodeRef(i))

(***************************************************************************)
(* The state.  pass is the pass being run ("done" after the third), run    *)
(* counts the runs of the three passes over the same graph, queue is the   *)
(* pass' work queue, popped/event describe the last iteration, flags, fc   *)
(* and ifsb are the nodes' meta entries, err the exception that ended the  *)
(* run (errNode the node it names), first the result of the first run,     *)
(* called the extension rules (by position) that the last iteration of     *)
(* add_features_calculator called, deferred the nodes that                 *)
(* add_features_calculator has skipped so far, sn the SuperNet wrapper     *)
(* being built (none while the passes run).                                *)
(***************************************************************************)
Unannotated(gr) == [i \in NodeIds(gr) |-> NoFlags]
NoCalculators(gr) == [i \in NodeIds(gr) |-> 0]
NoRefs(gr) == [i \in NodeIds(gr) |-> NoRef]

(***************************************************************************)
(* Graphs beyond the general family.                                       *)
(***************************************************************************)
\* two parallel convolutions of 16 and 24 channels, concatenated in the order
\* given by ins, then a third convolution and the output
ConcatGraph(ins) ==
    <<Node("placeholder", "x", <<>>, <<>>, NoKw, <<1, 3, 8, 8>>),
      Node("call_module", "Conv2d", <<1>>, <<>>, NoKw, <<1, 16, 8, 8>>),
      Node("call_module", "Conv2d", <<1>>, <<>>, NoKw, <<1, 24, 8, 8>>),
      Node("call_function", "torch.cat", ins, <<Some(1)>>, NoKw, <<1, 40, 8, 8>>),
      Node("call_module", "Conv2d", <<4>>, <<>>, NoKw, <<1, 8, 8, 8>>),
      Node("output", "output", <<5>>, <<>>, NoKw, <<1, 8, 8, 8>>)>>

ConcatGraphs == {ConcatGraph(<<2, 3>>), ConcatGraph(<<3, 2>>)}

\* a node that joins the input with the end of a two-layer branch: it is
\* reached from the input before its other predecessor has been processed
JoinGraph(t, ins) ==
    <<Node("placeholder", "x", <<>>, <<>>, NoKw, <<1, 4, 8>>),
      Node("call_module", "Conv1d", <<1>>, <<>>, NoKw, <<1, 4, 8>>),
      Node("call_module", "ReLU", <<2>>, <<>>, NoKw, <<1, 4, 8>>),
      Node(t.op, t.target, ins, t.args, t.kwargs,
           IF is_concatenate(t) THEN <<1, 8, 8>> ELSE <<1, 4, 8>>),
      Node("call_module", "ReLU", <<4>>, <<>>, NoKw,
           IF is_concatenate(t) THEN <<1, 8, 8>> ELSE <<1, 4, 8>>)>>

JoinGraphs == {JoinGraph(t, ins) : t \in {TAdd, TCat}, ins \in {<<1, 3>>, <<3, 1>>}}

\* reshape chains: input -> flatten or squeeze -> ReLU, over input shapes of
\* rank 2 .. MaxRank with pairwise different extents, and the shapes
\* (1, 32, 5, 3) and (1, 64, 1, 10)
Extents == <<1, 2, 3, 5, 7, 11, 13>>

ReshapeShapes ==
    {SubSeq(Extents, 1, r) : r \in 2 .. MaxRank}
    \cup {<<1, 32, 5, 3>>, <<1, 64, 1, 10>>}

Dims(sh) == (0 - Len(sh)) .. (Len(sh) - 1)

\* the ways to call flatten: positional, keyword and default arguments
FlattenCalls(sh) ==
    {TFlatten(<<>>, NoKw), TFlatten(<<>>, Kw("start_dim", None)),
     TFlatten(<<>>, Kw("end_dim", None))}
    \cup {TFlatten(<<Some(s)>>, NoKw) : s \in Dims(sh)}
    \cup {TFlatten(<<Some(s), Some(e)>>, NoKw) : s \in Dims(sh), e \in Dims(sh)}
    \cup {TFlatten(<<>>, Kw("start_dim", Some(s))) : s \in Dims(sh)}
    \cup {TFlatten(<<>>, Kw("end_dim", Some(e))) : e \in Dims(sh)}
    \cup {TFlatten(<<Some(s)>>, Kw("end_dim", Some(e))) : s \in Dims(sh), e \in Dims(sh)}

SqueezeCalls(sh) ==
    {TSqueeze(<<>>, NoKw), TSqueeze(<<None>>, NoKw), TSqueeze(<<>>, Kw("dim", None))}
    \cup {TSqueeze(<<Some(d)>>, NoKw) : d \in Dims(sh)}
    \cup {TSqueeze(<<>>, Kw("dim", Some(d))) : d \in Dims(sh)}

ReshapeGraphs ==
    UNION {ExtendAll(ExtendAll(GraphsOfSize(1, {}, sh),
                               FlattenCalls(sh) \cup SqueezeCalls(sh), sh),
                     {TReLU}, sh) :
              sh \in ReshapeShapes}

\* graphs run with extension rules: one rule answers for torch.mul nodes, the
\* other for torch.mul nodes and convolutions
RuleA == Rule({"torch.mul"}, 7)
RuleB == Rule({"torch.mul", "Conv2d"}, 9)
RuleLists == {<<RuleA>>, <<RuleB>>, <<RuleA, RuleB>>, <<RuleB, RuleA>>}

RuleGraphs ==
    UNION {GraphsOfSize(k, {TConv, TReLU, TMul, TAdd}, InputShape) : k \in 2 .. MaxNodes}

\* a two-operand node that a rule answers for, reached from the input before
\* its other predecessor has been processed
RuleJoinGraphs == {JoinGraph(TMul2, ins) : ins \in {<<1, 3>>, <<3, 1>>}}

\* a residual sum that feeds both a ReLU and a concatenation:
\* a = Conv1d(x); s = x + a; r = ReLU(s); d = Conv1d(a); cat((s, d), 1)
ResidualCatGraph ==
    <<Node("placeholder", "x", <<>>, <<>>, NoKw, <<1, 4, 8>>),
      Node("call_module", "Conv1d", <<1>>, <<>>, NoKw, <<1, 4, 8>>),
      Node("call_function", "torch.add", <<1, 2>>, <<>>, NoKw, <<1, 4, 8>>),
      Node("call_module", "ReLU", <<3>>, <<>>, NoKw, <<1, 4, 8>>),
      Node("call_module", "Conv1d", <<2>>, <<>>, NoKw, <<1, 4, 8>>),
      Node("call_function", "torch.cat", <<3, 5>>, <<Some(1)>>, NoKw, <<1, 8, 8>>)>>

\* a flatten that feeds a ReLU and, as first operand, a concatenation:
\* f = flatten(x, 1); r = ReLU(f); cat((f, r), 1)
FlattenCatGraph ==
    <<Node("placeholder", "x", <<>>, <<>>, NoKw, <<1, 2, 3>>),
      Node("call_function", "torch.flatten", <<1>>, <<Some(1)>>, NoKw, <<1, 6>>),
      Node("call_module", "ReLU", <<2>>, <<>>, NoKw, <<1, 6>>),
      Node("call_function", "torch.cat", <<2, 3>>, <<Some(1)>>, NoKw, <<1, 12>>)>>

\* the graphs and extension rules the passes are run on
Inputs ==
    {<<gr, <<>>>> : gr \in GeneralGraphs \cup ConcatGraphs \cup JoinGraphs
                           \cup ReshapeGraphs
                           \cup {ResidualCatGraph, FlattenCatGraph}}
    \cup {<<gr, rs>> : gr \in RuleGraphs \cup RuleJoinGraphs, rs \in RuleLists}

\* no SuperNet wrapper is being built
NoSuperNet == [phase |-> "none"]

Init ==
    /\ \E in \in Inputs : g = in[1] /\ extra_rules = in[2]
    /\ pass = "annotate"
    /\ run = 1
    /\ queue = get_input_nodes(g)
    /\ popped = 0
    /\ event = "start"
    /\ flags = Unannotated(g)
    /\ heap = <<>>
    /\ fc = NoCalculators(g)
    /\ ifsb = NoRefs(g)
    /\ err = "none"
    /\ errNode = 0
    /\ first = <<>>
    /\ called = <<>>
    /\ deferred = {}
    /\ sn = NoSuperNet

Running(p) == pass = p /\ err = "none" /\ queue # <<>>

\* "for succ in nx_graph.successors(n): queue.append(succ)" at the end of an
\* iteration that popped n; successors() raises for a node the nx graph lacks
EnqueueSuccessors(n, ev) ==
    IF n \in NxNodes(g)
    THEN /\ queue' = Tail(queue) \o successors(g, n)
         /\ event' = ev
         /\ UNCHANGED <<err, errNode>>
    ELSE /\ queue' = Tail(queue)
         /\ event' = "raise"
         /\ err' = "NetworkXError"
         /\ errNode' = n

\* an iteration that ends in exception e
Throw(n, e) ==
    /\ queue' = Tail(queue)
    /\ event' = "raise"
    /\ err' = e
    /\ errNode' = n

(***************************************************************************)
(* add_node_properties                                                     *)
(***************************************************************************)
AnnotateStep ==
    /\ Running("annotate")
    /\ LET n == Head(queue)
       IN /\ popped' = n
          /\ flags' = [flags EXCEPT ![n] = NodeProperties(g[n])]
          /\ EnqueueSuccessors(n, "visit")
    /\ UNCHANGED <<g, extra_rules, pass, run, heap, fc, ifsb, first, called, deferred>>
    /\ UNCHANGED sn

\* the pass returns; add_features_calculator starts
AnnotateReturn ==
    /\ pass = "annotate" /\ err = "none" /\ queue = <<>>
    /\ pass' = "propagate"
    /\ queue' = get_input_nodes(g)
    /\ popped' = 0
    /\ event' = "start"
    /\ called' = <<>>
    /\ deferred' = {}
    /\ UNCHANGED <<g, extra_rules, run, flags, heap, fc, ifsb, err, errNode, first>>
    /\ UNCHANGED sn

(***************************************************************************)
(* add_features_calculator                                                 *)
(***************************************************************************)
\* lines 72-78: the node is dropped from the queue, "continue"
PropagateSkip ==
    /\ Running("propagate")
    /\ skip_flag(g, fc, Head(queue))
    /\ popped' = Head(queue)
    /\ queue' = DropDeferred(queue)
    /\ event' = "skip"
    /\ called' = <<>>
    /\ deferred' = deferred \cup {Head(queue)}
    /\ UNCHANGED <<g, extra_rules, pass, run, flags, heap, fc, ifsb, err, errNode, first>>
    /\ UNCHANGED sn

\* mutant of KeptByPropagation: processing a node clears its flags
KeptByPropagation_ClearsFlags ==
    /\ flags' = [flags EXCEPT ![Head(queue)] = [f \in FlagNames |-> FALSE]]
    /\ ifsb' = ifsb

\* an iteration that attaches a calculator writes n.meta['features_calculator']
\* and no other entry of any node's meta
KeptByPropagation ==
    /\ flags' = flags
    /\ ifsb' = ifsb

PropagateAttach ==
    /\ Running("propagate")
    /\ LET n == Head(queue)
           r == BuildCalculator(g, extra_rules, flags, fc, n)
       IN /\ ~skip_flag(g, fc, n)
          /\ r.out # "raise"
          /\ popped' = n
          /\ IF r.out = "new"
             THEN /\ heap' = Append(heap, r.obj)
                  /\ fc' = [fc EXCEPT ![n] = Len(heap) + 1]
             ELSE /\ heap' = heap
                  /\ fc' = [fc EXCEPT ![n] = r.id]
          /\ EnqueueSuccessors(n, "attach")
    /\ called' = RulesCalled(extra_rules, g[Head(queue)])
    /\ KeptByPropagation
    /\ UNCHANGED <<g, extra_rules, pass, run, first, deferred>>
    /\ UNCHANGED sn

PropagateRaise ==
    /\ Running("propagate")
    /\ LET n == Head(queue)
           r == BuildCalculator(g, extra_rules, flags, fc, n)
       IN /\ ~skip_flag(g, fc, n)
          /\ r.out = "raise"
          /\ popped' = n
          /\ Throw(n, r.err)
    /\ called' = RulesCalled(extra_rules, g[Head(queue)])
    /\ UNCHANGED <<g, extra_rules, pass, run, flags, heap, fc, ifsb, first, deferred>>
    /\ UNCHANGED sn

\* the pass returns; associate_input_features starts
PropagateReturn ==
    /\ pass = "propagate" /\ err = "none" /\ queue = <<>>
    /\ pass' = "associate"
    /\ queue' = get_input_nodes(g)
    /\ popped' = 0
    /\ event' = "start"
    /\ UNCHANGED <<g, extra_rules, run, flags, heap, fc, ifsb, err, errNode, first, called,
                   deferred>>
    /\ UNCHANGED sn

(***************************************************************************)
(* associate_input_features                                                *)
(***************************************************************************)
AssociateSet ==
    /\ Running("associate")
    /\ LET n == Head(queue)
           r == InputFeaturesSetBy(g, flags, ifsb, n)
       IN /\ r.out = "set"
          /\ popped' = n
          /\ ifsb' = [ifsb EXCEPT ![n] = r.ref]
          /\ EnqueueSuccessors(n, "set")
    /\ UNCHANGED <<g, extra_rules, pass, run, flags, heap, fc, first, called, deferred>>
    /\ UNCHANGED sn

\* lines 170 and 209-210: nothing is written, the successors are enqueued
AssociateSkip ==
    /\ Running("associate")
    /\ LET n == Head(queue)
       IN /\ InputFeaturesSetBy(g, flags, ifsb, n).out = "nothing"
          /\ popped' = n
          /\ EnqueueSuccessors(n, "skip")
    /\ UNCHANGED <<g, extra_rules, pass, run, flags, heap, fc, ifsb, first, called, deferred>>
    /\ UNCHANGED sn

AssociateRaise ==
    /\ Running("associate")
    /\ LET n == Head(queue)
           r == InputFeaturesSetBy(g, flags, ifsb, n)
       IN /\ r.out = "raise"
          /\ popped' = n
          /\ Throw(n, r.err)
    /\ UNCHANGED <<g, extra_rules, pass, run, flags, heap, fc, ifsb, first, called, deferred>>
    /\ UNCHANGED sn

\* what a run leaves on the nodes: flags, calculator values, back-references
Features0(h, calc, i) == IF calc[i] = 0 THEN -1 ELSE Features(h, calc[i])

Result ==
    [flags |-> flags,
     features |-> [i \in NodeIds(g) |-> Features0(heap, fc, i)],
     ifsb |-> ifsb]

\* the pass returns: the run of the three passes is complete
AssociateReturn ==
    /\ pass = "associate" /\ err = "none" /\ queue = <<>>
    /\ pass' = "done"
    /\ popped' = 0
    /\ event' = "return"
    /\ first' = IF run = 1 THEN Result ELSE first
    /\ UNCHANGED <<g, extra_rules, run, queue, flags, heap, fc, ifsb, err, errNode, called,
                   deferred>>
    /\ UNCHANGED sn

\* the three passes are run again on the annotated graph
Rerun ==
    /\ pass = "done" /\ run = 1
    /\ pass' = "annotate"
    /\ run' = 2
    /\ queue' = get_input_nodes(g)
    /\ popped' = 0
    /\ event' = "start"
    /\ UNCHANGED <<g, extra_rules, flags, heap, fc, ifsb, err, errNode, first, called,
                   deferred>>
    /\ UNCHANGED sn

Next ==
    \/ AnnotateStep
    \/ AnnotateReturn
    \/ PropagateSkip
    \/ PropagateAttach
    \/ PropagateRaise
    \/ PropagateReturn
    \/ AssociateSet
    \/ AssociateSkip
    \/ AssociateRaise
    \/ AssociateReturn
    \/ Rerun

Spec == Init /\ [][Next]_vars

\* the passes are straight-line loops of one thread: a pass that can take a
\* step takes it
FairSpec == Init /\ [][Next]_vars /\ WF_vars(Next)

(***************************************************************************)
(* Graphs with a cycle.  An fx graph gets one when an argument of a node   *)
(* is set to a node that comes later: x -> [pre ->] join -> ring nodes ->  *)
(* join, with an optional node that uses join outside the ring and an      *)
(* optional second input that no node uses.  pre and exit are sequences of *)
(* at most one template: pre is a supported node, a node of no known kind  *)
(* or a flatten of the batch dimension; backFirst tells whether the edge   *)
(* that closes the cycle is the first input of join.                       *)
(***************************************************************************)
CyclicGraph(pre, join, backFirst, ring, exit, spare) ==
    LET entry == 1 + Len(pre)
        j == entry + 1
        back == j + Len(ring)
        mk(t, ins) == Node(t.op, t.target, ins, t.args, t.kwargs, InputShape)
    IN <<mk(TPlaceholder, <<>>)>>
       \o [k \in 1 .. Len(pre) |-> mk(pre[k], <<1>>)]
       \o <<mk(join, IF backFirst THEN <<back, entry>> ELSE <<entry, back>>)>>
       \o [k \in 1 .. Len(ring) |-> mk(ring[k], <<j + k - 1>>)]
       \o [k \in 1 .. Len(exit) |-> mk(exit[k], <<j>>)]
       \o (IF spare THEN <<mk(TPlaceholder, <<>>)>> ELSE <<>>)

CyclicGraphs ==
    {CyclicGraph(pre, join, backFirst, ring, exit, spare) :
        pre \in {<<>>, <<TReLU>>, <<TMul>>, <<TFlatten(<<>>, NoKw)>>},
        join \in {TAdd, TCat, TMul2},
        backFirst \in BOOLEAN,
        ring \in UNION {[1 .. k -> {TReLU, TConv}] : k \in 0 .. MaxRing},
        exit \in {<<>>, <<TOutput>>},
        spare \in BOOLEAN}

\* the queue loop of add_node_properties from queue q on, seen being the nodes
\* popped so far: the nodes it pops.  A popped node that is in no edge ends
\* the loop, since nx_graph.successors raises for it after the node has been
\* flagged; popping a node again flags nothing new and queues nothing new,
\* so that the loop on a graph with a cycle pops the nodes computed here
RECURSIVE VisitedFrom(_, _, _)
VisitedFrom(gr, q, seen) ==
    IF q = <<>> THEN seen
    ELSE IF Head(q) \notin NxNodes(gr) THEN seen \cup {Head(q)}
    ELSE IF Head(q) \in seen THEN VisitedFrom(gr, Tail(q), seen)
    ELSE VisitedFrom(gr, Tail(q) \o successors(gr, Head(q)), seen \cup {Head(q)})

Visited(gr) == VisitedFrom(gr, get_input_nodes(gr), {})

\* the flags add_node_properties writes on the nodes it pops; the meta of a
\* node it never pops stays without flags
Annotated(gr) ==
    [i \in NodeIds(gr) |-> IF i \in Visited(gr) THEN NodeProperties(gr[i]) ELSE NoFlags]

\* the flags on the nodes after each number of iterations of the loop of
\* add_node_properties from queue q and flags fl on, up to the iteration
\* that raises or after which every node the loop pops has its flags
RECURSIVE AnnotatedSoFar(_, _, _)
AnnotatedSoFar(gr, q, fl) ==
    IF q = <<>> \/ fl = Annotated(gr) THEN {fl}
    ELSE LET n == Head(q)
             written == [fl EXCEPT ![n] = NodeProperties(gr[n])]
         IN {fl} \cup (IF n \notin NxNodes(gr) THEN {written}
                       ELSE AnnotatedSoFar(gr, Tail(q) \o successors(gr, n), written))

\* the passes on graphs with and without a cycle.  On a graph with a cycle
\* add_node_properties is called, which does not return; or
\* add_features_calculator is called by itself, on the node meta as
\* add_node_properties has written it by some iteration: none (the graph
\* was never annotated), some of the flags, or the flags of every node the
\* loop visits
InitCyclic ==
    \/ Init
    \/ /\ g \in CyclicGraphs
       /\ extra_rules = <<>>
       /\ pass \in {"annotate", "propagate"}
       /\ run = 1
       /\ queue = get_input_nodes(g)
       /\ popped = 0
       /\ event = "start"
       /\ flags \in IF pass = "annotate" THEN {Unannotated(g)}
                    ELSE AnnotatedSoFar(g, get_input_nodes(g), Unannotated(g))
       /\ heap = <<>>
       /\ fc = NoCalculators(g)
       /\ ifsb = NoRefs(g)
       /\ err = "none"
       /\ errNode = 0
       /\ first = <<>>
       /\ called = <<>>
       /\ deferred = {}
       /\ sn = NoSuperNet

\* each pass is a loop of one thread: while it can take a step it takes it
FairSpecCyclic == InitCyclic /\ [][Next]_vars /\ WF_vars(Next)

(***************************************************************************)
(* Notions used by the properties.                                         *)
(***************************************************************************)
\* the nodes reachable from an input node along successor edges
RECURSIVE ReachableUpTo(_, _)
ReachableUpTo(gr, i) ==
    IF i = 0 THEN {}
    ELSE LET r == ReachableUpTo(gr, i - 1)
         IN IF \/ gr[i].op = "placeholder"
               \/ \E k \in DOMAIN gr[i].inputs : gr[i].inputs[k] \in r
            THEN r \cup {i} ELSE r

Reachable(gr) == ReachableUpTo(gr, Len(gr))

\* no semantic predicate holds of the node
Unclassified(n) ==
    ~(\/ is_features_propagating_op(n) \/ is_features_defining_op(n)
      \/ is_shared_input_features_op(n) \/ is_flatten(n) \/ is_squeeze(n)
      \/ is_features_concatenate(n))

\* no extension rule answers for the node
Unclaimed(n) == FirstRule(extra_rules, n) = None

\* sum of f over a finite set
RECURSIVE SumOver(_, _)
SumOver(S, f) ==
    IF S = {} THEN 0
    ELSE LET x == CHOOSE y \in S : TRUE IN f[x] + SumOver(S \ {x}, f)

Returned(p) ==
    \/ p = "annotate" /\ (pass \in {"propagate", "associate", "done"} \/ run = 2)
    \/ p = "propagate" /\ (pass \in {"associate", "done"} \/ run = 2)
    \/ p = "associate" /\ (pass = "done" \/ run = 2)

(***************************************************************************)
(* Properties.                                                             *)
(***************************************************************************)
\* every node is an input or of an allow-listed kind, none is a flatten or a
\* squeeze, and every node has an edge
PlainAllowListed(gr) ==
    /\ \A i \in NodeIds(gr) : gr[i].op = "placeholder" \/ ~Unclassified(gr[i])
    /\ \A i \in NodeIds(gr) : ~is_flatten(gr[i]) /\ ~is_squeeze(gr[i])
    /\ NxNodes(gr) = NodeIds(gr)

\* C1 (as claimed, on the graphs of allow-listed kinds that hold no flatten, no
\* squeeze and no node without an edge): no pass raises, and once the three
\* passes have returned every node reachable from an input carries a
\* features_calculator and an input_features_set_by.
C1_AllReachableAnnotated ==
    (PlainAllowListed(g) /\ extra_rules = <<>>) =>
        /\ err = "none"
        /\ Returned("associate") =>
               \A i \in Reachable(g) : fc[i] # 0 /\ ifsb[i] # NoRef

\* C2 (as claimed): in the graph input -> {convA, convB} -> cat(convA, convB)
\* -> convC, after the three passes convC's input_features_set_by is the list
\* [convA, convB].
C2_ConvAfterConcatListsConvs ==
    (g = ConcatGraph(<<2, 3>>) /\ Returned("associate")) =>
        ifsb[5] = ListRef(<<2, 3>>)

\* C2 (amended): after the three passes convC's input_features_set_by is the
\* concatenation node itself, and it is the concatenation node whose
\* input_features_set_by is the list of the two convolutions, in the order of
\* the concatenation's inputs.
C2_ConvAfterConcatPointsAtConcat ==
    (g \in ConcatGraphs /\ Returned("associate")) =>
        /\ ifsb[5] = NodeRef(4)
        /\ ifsb[4] = ListRef(g[4].inputs)
        /\ g[4].inputs \in {<<2, 3>>, <<3, 2>>}

C2_Witness ==
    /\ g = ConcatGraph(<<2, 3>>) /\ pass = "done" /\ run = 1
    /\ ifsb[4] = ListRef(<<2, 3>>)

\* C3: whenever a concatenate node (not answered for by an extension rule)
\* carries a calculator, its value is the sum of the values of the calculators
\* of its predecessors, taken as a set (so in any order); in the 16/24 graph
\* the value is 40 for both orders of the concatenation's inputs.
C3_ConcatIsSumOfPredecessors ==
    \A i \in NodeIds(g) :
        (HasFlags(flags, i) /\ flags[i]["features_concatenate"] /\ Unclaimed(g[i])
         /\ fc[i] # 0) =>
            /\ \A p \in Range(g[i].inputs) : fc[p] # 0
            /\ Features(heap, fc[i]) =
                   SumOver(Range(g[i].inputs),
                           [p \in Range(g[i].inputs) |-> Features0(heap, fc, p)])
            /\ g \in ConcatGraphs => Features(heap, fc[i]) = 40

C3_Witness ==
    /\ g = ConcatGraph(<<3, 2>>) /\ Returned("propagate")
    /\ Features0(heap, fc, 2) = 16 /\ Features0(heap, fc, 3) = 24
    /\ Features0(heap, fc, 4) = 40

\* the features-defining node at the start of the chain of features-propagating
\* nodes that ends in node i (0 if the chain starts elsewhere)
RECURSIVE ChainSource(_, _)
ChainSource(gr, i) ==
    IF is_features_defining_op(gr[i]) THEN i
    ELSE IF is_features_propagating_op(gr[i]) /\ Len(gr[i].inputs) = 1
    THEN ChainSource(gr, gr[i].inputs[1])
    ELSE 0

\* C4: whenever a features-propagating node with a single predecessor (not
\* answered for by an extension rule) carries a calculator, its value is the
\* value of its predecessor's calculator; and at the end of a chain of
\* propagating nodes that starts after a features-defining node (no rule
\* involved) the value is that node's channel count.
C4_PropagatingEqualsPredecessor ==
    \A i \in NodeIds(g) :
        (HasFlags(flags, i) /\ flags[i]["features_propagating"] /\ Unclaimed(g[i])
         /\ Len(g[i].inputs) = 1 /\ fc[i] # 0) =>
            /\ fc[g[i].inputs[1]] # 0
            /\ Features(heap, fc[i]) = Features(heap, fc[g[i].inputs[1]])
            /\ (ChainSource(g, i) # 0 /\ extra_rules = <<>>) =>
                   Features(heap, fc[i]) = g[ChainSource(g, i)].shape[2]

C4_Witness ==
    /\ g \in JoinGraphs /\ Returned("propagate")
    /\ flags[3]["features_propagating"] /\ ChainSource(g, 3) = 2
    /\ Features0(heap, fc, 3) = 4

\* the value start_dim / dim of the call of node n, None when the call gives
\* none (the argument is absent, or it is None)
StartDimOf(n) == try_get_args(n, 1, "start_dim", None)
EndDimOf(n) == try_get_args(n, 2, "end_dim", None)
DimOf(n) == try_get_args(n, 1, "dim", None)

\* C5: a flatten of a (1, 32, 5, 3) predecessor of value 32, end_dim left at
\* its default: with start_dim = 2 the flatten's calculator has value 32, with
\* start_dim = 1 it has value 480.
C5_FlattenOfShape32x5x3 ==
    (/\ Len(g) >= 2 /\ is_flatten(g[2]) /\ g[2].inputs = <<1>>
     /\ g[1].shape = <<1, 32, 5, 3>> /\ EndDimOf(g[2]) = None
     /\ fc[2] # 0) =>
        /\ Features(heap, fc[1]) = 32
        /\ StartDimOf(g[2]) = Some(2) => Features(heap, fc[2]) = 32
        /\ StartDimOf(g[2]) = Some(1) => Features(heap, fc[2]) = 480

C5_Witness ==
    /\ Len(g) >= 2 /\ is_flatten(g[2]) /\ g[1].shape = <<1, 32, 5, 3>>
    /\ StartDimOf(g[2]) = Some(1) /\ EndDimOf(g[2]) = None
    /\ Features0(heap, fc, 2) = 480

\* C6: a squeeze of a (1, 64, 1, 10) predecessor of value 64: with dim = 1 and
\* with dim = 2 the squeeze's calculator has value 64.
C6_SqueezeOfShape64x1x10 ==
    (/\ Len(g) >= 2 /\ is_squeeze(g[2]) /\ g[2].inputs = <<1>>
     /\ g[1].shape = <<1, 64, 1, 10>> /\ DimOf(g[2]) \in {Some(1), Some(2)}
     /\ fc[2] # 0) =>
        /\ Features(heap, fc[1]) = 64
        /\ Features(heap, fc[2]) = 64

C6_Witness ==
    /\ Len(g) >= 2 /\ is_squeeze(g[2]) /\ g[1].shape = <<1, 64, 1, 10>>
    /\ DimOf(g[2]) = Some(1) /\ fc[2] # 0 /\ heap[fc[2]].kind = "Flatten"
    /\ Features(heap, fc[2]) = 64

\* node i is a flatten whose merged range starts at dimension 0, or a squeeze
\* of dimension 0: start_dim / dim is 0, minus the rank of the input, or (for
\* flatten) left at its default
DesignatesBatch(gr, i) ==
    LET rank == Len(gr[gr[i].inputs[1]].shape)
    IN \/ /\ is_flatten(gr[i])
          /\ NormDim(try_get_args(gr[i], 1, "start_dim", Some(0))[1], rank) = 0
       \/ /\ is_squeeze(gr[i])
          /\ DimOf(gr[i]) # None
          /\ NormDim(DimOf(gr[i])[1], rank) = 0

\* C7 (as claimed): a flatten or squeeze node that designates dimension 0, in
\* whichever way, never gets a calculator: the iteration that processes it
\* ends in an error.
C7_BatchReshapeNeverAttached ==
    \A i \in NodeIds(g) :
        (/\ is_flatten(g[i]) \/ is_squeeze(g[i])
         /\ g[i].inputs # <<>> /\ DesignatesBatch(g, i) /\ Unclaimed(g[i])) =>
            /\ fc[i] = 0
            /\ (pass = "propagate" /\ popped = i /\ event # "skip") => err # "none"

\* C8 (as claimed): when a node reachable from an input has none of the six
\* semantic flags and no extension rule answers for it, add_features_calculator
\* does not return normally and the node never gets a calculator.
C8_UnsupportedNodeNeverReturns ==
    \A i \in Reachable(g) :
        (g[i].op # "placeholder" /\ Unclassified(g[i]) /\ Unclaimed(g[i])) =>
            /\ ~Returned("propagate")
            /\ fc[i] = 0

\* C9: a second run of the three passes on the annotated graph raises nothing
\* and ends with the flags, the calculator values and the back-references of
\* the first run.
C9_SecondRunSameResult ==
    run = 2 =>
        /\ err = "none"
        /\ pass = "done" => Result = first

C9_Witness ==
    /\ run = 2 /\ pass = "done" /\ g \in JoinGraphs
    /\ Len(heap) > Len(g)
    /\ \A i \in NodeIds(g) : fc[i] # 0 /\ ifsb[i] # NoRef

\* C10 (as claimed): a visit of add_node_properties to a node that is no input
\* and satisfies none of the six semantic predicates ends in an
\* unsupported-node error.
C10_AnnotationRejectsUnclassified ==
    (/\ pass = "annotate" /\ popped # 0
     /\ g[popped].op # "placeholder" /\ Unclassified(g[popped])) =>
        err = "ValueError: Unsupported node"

\* C10 (amended): add_node_properties never ends in an unsupported-node error;
\* a visited node that is no input and satisfies none of the six semantic
\* predicates gets all six semantic flags false; the unsupported-node error of
\* add_features_calculator names such a node (all six flags false, no
\* extension rule answering for it).
C10_UnclassifiedFailsInPropagation ==
    /\ pass = "annotate" => err # "ValueError: Unsupported node"
    /\ \A i \in NodeIds(g) :
           (HasFlags(flags, i) /\ g[i].op # "placeholder" /\ Unclassified(g[i])) =>
               \A f \in SemanticFlags : ~flags[i][f]
    /\ (pass = "propagate" /\ err = "ValueError: Unsupported node") =>
           /\ HasFlags(flags, errNode)
           /\ \A f \in SemanticFlags : ~flags[errNode][f]
           /\ Unclaimed(g[errNode])
           /\ fc[errNode] = 0

C10_Witness ==
    /\ pass = "propagate" /\ err = "ValueError: Unsupported node"
    /\ errNode # 0 /\ Unclassified(g[errNode])
    /\ \A f \in SemanticFlags : ~flags[errNode][f]

\* a node that is no input and has no predecessors
Rootless(gr) == {i \in NodeIds(gr) : gr[i].op # "placeholder" /\ gr[i].inputs = <<>>}

\* C11 (as claimed): on a graph that holds a node that is no input and has no
\* predecessors the passes fail: the run of the three passes never completes
\* normally.
C11_RootlessNodeIsRejected ==
    Rootless(g) # {} => pass # "done"

\* C12 (as claimed): when add_features_calculator or associate_input_features
\* has raised, the metadata the pass writes is what it was when the pass
\* started: on a first run, no node carries a features_calculator after a
\* failed add_features_calculator, and none an input_features_set_by after a
\* failed associate_input_features.
C12_FailedPassLeavesNoMetadata ==
    /\ (run = 1 /\ pass = "propagate" /\ err # "none") => fc = NoCalculators(g)
    /\ (run = 1 /\ pass = "associate" /\ err # "none") => ifsb = NoRefs(g)

\* the nodes from which node i can be reached along edges
RECURSIVE PredsWithin(_, _, _)
PredsWithin(gr, S, k) ==
    IF k = 0 THEN S
    ELSE PredsWithin(gr, S \cup UNION {Range(gr[i].inputs) : i \in S}, k - 1)

Ancestors(gr, i) == PredsWithin(gr, Range(gr[i].inputs), Len(gr))

OnCycle(gr) == {i \in NodeIds(gr) : i \in Ancestors(gr, i)}

IsCyclic(gr) == OnCycle(gr) # {}

\* the "while queue" loop of pass p ends: the pass returns
LoopExits(p) == pass = p /\ err = "none" /\ queue = <<>>

\* C13 (as claimed): on a graph with a cycle that is reachable from an input,
\* none of the three passes ever returns and none ever raises.
C13_CyclicPassNeverReturns ==
    IsCyclic(g) =>
        /\ err = "none"
        /\ ~LoopExits("annotate")
        /\ ~LoopExits("propagate")
        /\ ~LoopExits("associate")

\* what holds at every moment on a graph with a cycle: add_node_properties
\* has not returned, and has raised only the NetworkXError of an input node
\* that is in no edge; associate_input_features has not returned; no node
\* on the cycle carries a calculator; add_features_calculator has raised
\* only on a node outside the cycle; and when it has returned, it had
\* dropped a node of the cycle from its queue
CyclicSafe ==
    IsCyclic(g) =>
        /\ ~LoopExits("annotate")
        /\ (pass = "annotate" /\ err # "none") =>
               /\ err = "NetworkXError"
               /\ g[errNode].op = "placeholder" /\ errNode \notin NxNodes(g)
        /\ (pass = "propagate" /\ err # "none") => errNode \notin OnCycle(g)
        /\ ~LoopExits("associate")
        /\ pass # "done"
        /\ \A i \in OnCycle(g) : fc[i] = 0
        /\ (LoopExits("propagate") \/ pass = "associate") =>
               deferred \cap OnCycle(g) # {}

\* add_features_calculator is running
PropagationRuns == pass = "propagate" /\ err = "none" /\ queue # <<>>

\* add_features_calculator has ended, by returning or by raising
PropagationEnded ==
    \/ LoopExits("propagate")
    \/ pass = "propagate" /\ err # "none"

\* C13 (amended): on a graph with a cycle that is reachable from an input,
\* add_node_properties never returns, and raises only when the graph has an
\* input node that is in no edge; associate_input_features never returns
\* normally; add_features_calculator, called on the node meta as
\* add_node_properties has written it so far, always ends, by raising on a
\* node outside the cycle or by returning after it dropped a node of the
\* cycle from the queue, and no node on the cycle ever carries a calculator.
C13_CyclicOnlyPropagationReturns ==
    /\ []CyclicSafe
    /\ (IsCyclic(g) /\ PropagationRuns) ~> PropagationEnded

C13_Witness ==
    /\ IsCyclic(g) /\ LoopExits("propagate")
    /\ fc[1] # 0
    /\ deferred \cap OnCycle(g) # {}

\* the semantic flags that are true on node i
TrueSemanticFlags(fl, i) == {f \in SemanticFlags : fl[i][f]}

\* C14 (as claimed): every annotated node that is no input has exactly one of
\* the six semantic flags true, and every annotated input node has
\* features_defining true.
C14_ExactlyOneSemanticFlag ==
    \A i \in NodeIds(g) :
        HasFlags(flags, i) =>
            IF g[i].op = "placeholder" THEN flags[i]["features_defining"]
            ELSE Cardinality(TrueSemanticFlags(flags, i)) = 1

\* C14 (amended): every annotated node has at most one of the six semantic
\* flags true: exactly one when its kind is on an allow-list, none when it is
\* not (such a node is annotated, with all six false); an annotated input node
\* has features_defining true and no other semantic flag.
C14_AtMostOneSemanticFlag ==
    \A i \in NodeIds(g) :
        HasFlags(flags, i) =>
            /\ DOMAIN flags[i] = FlagNames
            /\ Cardinality(TrueSemanticFlags(flags, i)) <= 1
            /\ g[i].op = "placeholder" =>
                   TrueSemanticFlags(flags, i) = {"features_defining"}
            /\ (g[i].op # "placeholder" /\ Unclassified(g[i])) =>
                   TrueSemanticFlags(flags, i) = {}
            /\ ~Unclassified(g[i]) => Cardinality(TrueSemanticFlags(flags, i)) = 1

C14_Witness ==
    /\ pass = "propagate" /\ run = 1
    /\ \E i \in NodeIds(g) : /\ HasFlags(flags, i) /\ g[i].op = "call_module"
                            /\ TrueSemanticFlags(flags, i) = {"features_defining"}
    /\ \E i \in NodeIds(g) : /\ HasFlags(flags, i) /\ g[i].op # "placeholder"
                            /\ TrueSemanticFlags(flags, i) = {}

\* the positions of the rules of the list that answer for node n
Answering(rules, n) == {k \in DOMAIN rules : ApplyRule(rules[k], n) # None}

\* the least element of a non-empty set of numbers
Min(S) == CHOOSE k \in S : \A m \in S : k <= m

\* C15: in an iteration of add_features_calculator that processes node n, the
\* extension rules are called in list order, from the first one on, before any
\* built-in branch is taken.  When some rule answers for n, the rules called
\* are those up to the first that answers and none after it, the calculator
\* on n is the one that rule made, and the iteration raises nothing, whatever
\* the flags of n say (be it an unsupported node, or one a built-in branch
\* would make another calculator for).  When no rule answers, all were called.
C15_FirstRuleWins ==
    (pass = "propagate" /\ popped # 0 /\ event \in {"attach", "raise"}) =>
        LET n == g[popped]
            ans == Answering(extra_rules, n)
        IN /\ called = [k \in 1 .. Len(called) |-> k]
           /\ IF ans # {}
              THEN /\ Len(called) = Min(ans)
                   /\ event = "attach"
                   /\ fc[popped] # 0
                   /\ heap[fc[popped]] = ApplyRule(extra_rules[Min(ans)], n)[1]
              ELSE Len(called) = Len(extra_rules)

C15_Witness ==
    /\ pass = "propagate" /\ event = "attach" /\ popped # 0
    /\ extra_rules = <<RuleB, RuleA>>
    /\ g[popped].target = "torch.mul"
    /\ called = <<1>>
    /\ heap[fc[popped]] = RuleFeaturesCalculator(9)

\* C16: a node flagged squeeze whose call gives no dim, neither by position
\* nor by keyword (and that no extension rule answers for), never carries a
\* calculator; the iteration of add_features_calculator that processes it ends
\* in the error "Squeeze without dim not supported", and
\* add_features_calculator returns normally only if the node was never
\* processed because a predecessor has no calculator.
C16_SqueezeWithoutDimFails ==
    \A i \in NodeIds(g) :
        (/\ HasFlags(flags, i) /\ flags[i]["squeeze"]
         /\ DimOf(g[i]) = None /\ Unclaimed(g[i])) =>
            /\ fc[i] = 0
            /\ (pass = "propagate" /\ popped = i /\ event # "skip") =>
                   /\ event = "raise"
                   /\ err = "ValueError: Squeeze without dim"
                   /\ errNode = i
            /\ Returned("propagate") => \E p \in Range(g[i].inputs) : fc[p] = 0

C16_Witness ==
    /\ pass = "propagate" /\ err = "ValueError: Squeeze without dim"
    /\ errNode # 0 /\ flags[errNode]["squeeze"] /\ DimOf(g[errNode]) = None
    /\ fc[errNode] = 0 /\ fc[g[errNode].inputs[1]] # 0

\* the number of times node i is in queue q
RECURSIVE Occurrences(_, _)
Occurrences(q, i) ==
    IF q = <<>> THEN 0
    ELSE (IF Head(q) = i THEN 1 ELSE 0) + Occurrences(Tail(q), i)

\* an iteration of add_features_calculator that popped a node one of whose
\* predecessors has no calculator
DeferringStep ==
    /\ pass = "propagate" /\ pass' = "propagate"
    /\ err = "none" /\ queue # <<>>
    /\ skip_flag(g, fc, Head(queue))

\* C17 (as claimed): an iteration of add_features_calculator that pops a node
\* one of whose predecessors has no calculator puts the node back at the tail
\* of the queue and attaches no calculator to it.
C17_DeferredNodeRequeued ==
    [][DeferringStep =>
          /\ queue' = Append(Tail(queue), Head(queue))
          /\ fc' = fc]_vars

\* C17 (amended): an iteration of add_features_calculator that pops a node one
\* of whose predecessors has no calculator drops the node: the queue is left
\* as it was after the pop, nothing is appended (neither the node nor its
\* successors), so the node is in the queue once less than before, and no
\* calculator is attached and no error raised.  The node is popped again only
\* when a later iteration enqueues it as a successor of the node it processed.
C17_DeferredNodeDropped ==
    [][/\ DeferringStep =>
             /\ queue' = Tail(queue)
             /\ Occurrences(queue', Head(queue)) = Occurrences(queue, Head(queue)) - 1
             /\ fc' = fc /\ heap' = heap
             /\ err' = "none"
             /\ popped' = Head(queue) /\ event' = "skip"
             /\ deferred' = deferred \cup {Head(queue)}
       /\ (pass = "propagate" /\ pass' = "propagate") =>
             \A i \in NodeIds(g) :
                 Occurrences(queue', i) > Occurrences(queue, i) =>
                     /\ Head(queue) \in Range(g[i].inputs)
                     /\ fc'[Head(queue)] # 0]_vars

C17_Witness ==
    /\ g = JoinGraph(TAdd, <<1, 3>>) /\ pass = "propagate" /\ run = 1
    /\ event = "skip" /\ popped = 4
    /\ Occurrences(queue, 4) = 0
    /\ fc[4] = 0 /\ fc[3] = 0

\* every node of the graph is an input, of an allow-listed kind, or answered
\* for by an extension rule
Supported(gr, rules) ==
    \A i \in NodeIds(gr) :
        \/ gr[i].op = "placeholder"
        \/ ~Unclassified(gr[i])
        \/ FirstRule(rules, gr[i]) # None

\* C18: on the (finite, acyclic) graphs of supported kinds,
\* add_features_calculator terminates (it returns or raises), and when it has
\* returned, every node reachable from an input, and so every node that was
\* skipped because a predecessor had no calculator, carries a calculator.
C18_PropagationTerminates ==
    /\ (pass = "propagate" /\ Supported(g, extra_rules))
           ~> (pass # "propagate" \/ err # "none")
    /\ [](Supported(g, extra_rules) /\ Returned("propagate") =>
              /\ deferred \subseteq Reachable(g)
              /\ \A i \in Reachable(g) : fc[i] # 0)

C18_Witness ==
    /\ g \in JoinGraphs /\ Supported(g, extra_rules)
    /\ pass = "associate" /\ run = 1 /\ event = "start"
    /\ deferred = {4}
    /\ fc[4] # 0

\* the nodes that have node n among their inputs
SuccessorSet(gr, n) == {j \in NodeIds(gr) : n \in Range(gr[j].inputs)}

\* the last k elements of queue q
LastOf(q, k) == SubSeq(q, Len(q) - k + 1, Len(q))

\* an iteration of add_node_properties that raises nothing
VisitStep ==
    /\ pass = "annotate" /\ pass' = "annotate"
    /\ queue # <<>> /\ err = "none" /\ err' = "none"

\* C19: on the (finite, acyclic) graphs add_node_properties terminates, and a
\* visit of a node writes its flags and appends each of the node's successors
\* to the queue exactly once, and nothing else, whether or not the node or a
\* successor has been visited before.
C19_AnnotationTerminates ==
    /\ (pass = "annotate") ~> (pass # "annotate" \/ err # "none")
    /\ [][VisitStep =>
             LET n == Head(queue)
                 added == Len(queue') - Len(Tail(queue))
             IN /\ added = Cardinality(SuccessorSet(g, n))
                /\ SubSeq(queue', 1, Len(queue') - added) = Tail(queue)
                /\ \A j \in NodeIds(g) :
                       Occurrences(LastOf(queue', added), j) =
                           IF j \in SuccessorSet(g, n) THEN 1 ELSE 0
                /\ popped' = n
                /\ DOMAIN flags'[n] = FlagNames]_vars

\* the second visit of the join node of a JoinGraph: its successor, visited
\* after the first visit, is in the queue again
C19_Witness ==
    /\ pass = "annotate" /\ run = 1 /\ err = "none"
    /\ g \in JoinGraphs
    /\ popped = 4 /\ event = "visit"
    /\ queue = <<5>>
    /\ HasFlags(flags, 5)

\* C20: when add_node_properties has returned, every node reachable from an
\* input along successor edges has been visited and carries all eight flags,
\* each with the value of its predicate; the nodes that are not reachable
\* carry none.
C20_ReachableNodesFlagged ==
    Returned("annotate") =>
        /\ \A i \in Reachable(g) :
               /\ DOMAIN flags[i] = FlagNames
               /\ flags[i] = NodeProperties(g[i])
        /\ \A i \in NodeIds(g) \ Reachable(g) : ~HasFlags(flags, i)

C20_Witness ==
    /\ pass = "propagate" /\ run = 1 /\ event = "start"
    /\ g \in ConcatGraphs
    /\ Reachable(g) = NodeIds(g)
    /\ \A i \in NodeIds(g) : DOMAIN flags[i] = FlagNames

\* C21: in every state, a node that carries a calculator, be it built-in or
\* made by an extension rule, has a calculator on each of its predecessors;
\* and an iteration of add_features_calculator that pops a node with a
\* predecessor without calculator attaches nothing and calls no rule.
C21_CalculatorOnlyAfterPredecessors ==
    /\ \A i \in NodeIds(g) :
           fc[i] # 0 => \A p \in Range(g[i].inputs) : fc[p] # 0
    /\ (pass = "propagate" /\ event = "skip") =>
           /\ fc[popped] = 0
           /\ called = <<>>

\* a node a rule answers for was popped before its second predecessor had a
\* calculator, was skipped, and got the rule's calculator later
C21_Witness ==
    /\ g = JoinGraph(TMul2, <<1, 3>>) /\ extra_rules = <<RuleA>>
    /\ pass = "propagate" /\ run = 1
    /\ deferred = {4}
    /\ popped = 4 /\ event = "attach"
    /\ heap[fc[4]] = RuleFeaturesCalculator(7)
    /\ fc[3] # 0 /\ fc[1] # 0

\* the first and the last dimension of the range flatten node i merges, as
\* dimensions of its input (negative indices count from the end)
MergeStart(gr, i) ==
    NormDim(try_get_args(gr[i], 1, "start_dim", Some(0))[1],
            Len(gr[gr[i].inputs[1]].shape))

MergeEnd(gr, i) ==
    NormDim(try_get_args(gr[i], 2, "end_dim", Some(-1))[1],
            Len(gr[gr[i].inputs[1]].shape))

\* the calculator on node i is a Flatten calculator over the calculator of
\* the node's predecessor
MultipliesUpstream(gr, h, calc, i) ==
    /\ h[calc[i]].kind = "Flatten"
    /\ calc[i] # calc[gr[i].inputs[1]]
    /\ h[calc[i]].refs = <<calc[gr[i].inputs[1]]>>

\* C22 (as claimed): on a first run, a flatten node whose merged range does
\* not include dimension 0 (and that no rule answers for) and that carries a
\* calculator has a multiplying calculator over its predecessor's if and only
\* if the merged range includes dimension 1, and carries the predecessor's own
\* calculator otherwise.
C22_FlattenMultipliesIffChannelMerged ==
    \A i \in NodeIds(g) :
        (/\ run = 1 /\ is_flatten(g[i]) /\ g[i].inputs # <<>> /\ Unclaimed(g[i])
         /\ MergeStart(g, i) >= 1 /\ fc[i] # 0) =>
            IF MergeStart(g, i) = 1
            THEN MultipliesUpstream(g, heap, fc, i)
            ELSE fc[i] = fc[g[i].inputs[1]]

\* C23 (as claimed): on a first run, a flatten node whose merged range starts
\* at dimension 1 (and that no rule answers for) and that carries a multiplying
\* calculator has as multiplier the product of the extents of its input over
\* the dimensions 2 .. end_dim, end_dim included.
C23_FlattenMultiplierIsMergedExtent ==
    \A i \in NodeIds(g) :
        (/\ run = 1 /\ is_flatten(g[i]) /\ g[i].inputs # <<>> /\ Unclaimed(g[i])
         /\ MergeStart(g, i) = 1 /\ fc[i] # 0
         /\ MultipliesUpstream(g, heap, fc, i)) =>
            heap[fc[i]].val =
                Prod(SubSeq(g[g[i].inputs[1]].shape, 3, MergeEnd(g, i) + 1))

\* the dimension a squeeze node designates, as a dimension of its input
SqueezedDim(gr, i) == NormDim(DimOf(gr[i])[1], Len(gr[gr[i].inputs[1]].shape))

\* a squeeze node with a dim, with a predecessor, that no rule answers for
PlainSqueeze(gr, i) ==
    /\ is_squeeze(gr[i]) /\ gr[i].inputs # <<>> /\ DimOf(gr[i]) # None
    /\ Unclaimed(gr[i])

\* C24 (as claimed): on a first run, the value of the calculator of a squeeze
\* node whose dim is dimension 1 is the value of the predecessor's calculator
\* times the extent of dimension 1 of the predecessor's shape.
C24_SqueezeMultipliesByChannelExtent ==
    \A i \in NodeIds(g) :
        (run = 1 /\ PlainSqueeze(g, i) /\ SqueezedDim(g, i) = 1 /\ fc[i] # 0) =>
            Features(heap, fc[i]) =
                Features(heap, fc[g[i].inputs[1]]) * g[g[i].inputs[1]].shape[2]

\* C24 (amended): on a first run, a squeeze node called with dim = 1 never
\* gets a calculator when its input has rank 2 (the iteration ends in
\* IndexError); for a higher rank its calculator is a multiplying calculator
\* over the predecessor's, with the extent of dimension 2 of the predecessor's
\* shape (the dimension after the channel dimension) as multiplier.  A squeeze
\* node called with dim = 1 - rank, the negative index of dimension 1, carries
\* the predecessor's own calculator.
C24_SqueezeMultipliesByNextExtent ==
    \A i \in NodeIds(g) :
        (run = 1 /\ PlainSqueeze(g, i) /\ SqueezedDim(g, i) = 1) =>
            LET p == g[i].inputs[1]
                rank == Len(g[p].shape)
            IN /\ (DimOf(g[i]) = Some(1) /\ rank = 2) =>
                      /\ fc[i] = 0
                      /\ (pass = "propagate" /\ popped = i /\ event # "skip") =>
                             err = "IndexError"
               /\ (DimOf(g[i]) = Some(1) /\ rank > 2 /\ fc[i] # 0) =>
                      /\ MultipliesUpstream(g, heap, fc, i)
                      /\ heap[fc[i]].val = g[p].shape[3]
               /\ (DimOf(g[i]) = Some(1 - rank) /\ fc[i] # 0) =>
                      fc[i] = fc[p]

C24_Witness ==
    /\ Len(g) >= 2 /\ PlainSqueeze(g, 2) /\ DimOf(g[2]) = Some(1)
    /\ g[1].shape = <<1, 2, 3, 5>>
    /\ fc[2] # 0 /\ MultipliesUpstream(g, heap, fc, 2)
    /\ heap[fc[1]] = ConstFeaturesCalculator(2)
    /\ heap[fc[2]].val = 3

\* C25 (as claimed): on a first run, a squeeze node whose dim designates
\* neither dimension 0 nor dimension 1, the last dimension included, and that
\* carries a calculator carries the calculator of its predecessor.
C25_SqueezeElsewherePassesThrough ==
    \A i \in NodeIds(g) :
        (/\ run = 1 /\ PlainSqueeze(g, i) /\ SqueezedDim(g, i) \notin {0, 1}
         /\ fc[i] # 0) =>
            fc[i] = fc[g[i].inputs[1]]

\* the node just given a calculator by add_features_calculator is a
\* shared-input node that no extension rule answers for
SharedAttached ==
    /\ pass = "propagate" /\ event = "attach" /\ popped # 0
    /\ flags[popped]["shared_input_features"] /\ Unclaimed(g[popped])

\* C26: a shared-input node that no extension rule answers for is given the
\* calculator of its first predecessor in input order, and add_features_calculator
\* never raises on such a node, whatever the values of its predecessors'
\* calculators.
C26_SharedInputTakesFirstPredecessor ==
    /\ SharedAttached => /\ fc[popped] = fc[g[popped].inputs[1]]
                         /\ err = "none"
    /\ (pass = "propagate" /\ event = "raise") =>
           ~(flags[popped]["shared_input_features"] /\ Unclaimed(g[popped]))

\* a shared-input node is attached while its two predecessors' calculators
\* have different values
C26_Witness ==
    /\ SharedAttached
    /\ Len(g[popped].inputs) = 2
    /\ Features(heap, fc[g[popped].inputs[1]]) # Features(heap, fc[g[popped].inputs[2]])
    /\ Features(heap, fc[popped]) = Features(heap, fc[g[popped].inputs[1]])

\* the concatenation nodes that fx_to_nx_graph reaches from the inputs
ReachableConcats == {i \in Reachable(g) : is_features_concatenate(g[i])}

\* associate_input_features is over: it returned or it raised
AssociateOver == pass = "done" \/ (pass = "associate" /\ err # "none")

\* C27 (as claimed): when associate_input_features is over, every reachable
\* concatenation node has the ordered list of its predecessors as its
\* input_features_set_by.
C27_ReachableConcatEndsWithList ==
    AssociateOver =>
        \A i \in ReachableConcats : ifsb[i] = ListRef(g[i].inputs)

\* C28 (as claimed): on the graphs of supported kinds, both passes make up for
\* the nodes they skipped: add_features_calculator ends with a calculator on
\* every node reachable from an input, and associate_input_features ends,
\* without raising, with an input_features_set_by on every such node.
C28_BothPassesAnnotateEveryReachableNode ==
    (Supported(g, <<>>) /\ extra_rules = <<>>) =>
        /\ (pass = "propagate" /\ queue = <<>> /\ err = "none") =>
               \A i \in Reachable(g) : fc[i] # 0
        /\ pass = "associate" => err = "none"
        /\ pass = "done" => \A i \in Reachable(g) : ifsb[i] # NoRef

\* node i is flagged flatten or squeeze
Reshaping(fl, i) == HasFlags(fl, i) /\ (fl[i]["flatten"] \/ fl[i]["squeeze"])

\* the test of associate_input_features on a flatten or squeeze node i with a
\* dim: its start_dim / dim is 1 or the last dimension of its input
TouchesChannels(gr, i) ==
    LET rank == Len(gr[gr[i].inputs[1]].shape)
        d == IF is_flatten(gr[i])
             THEN try_get_args(gr[i], 1, "start_dim", Some(0))[1]
             ELSE DimOf(gr[i])[1]
    IN d = 1 \/ rank - d = 1

\* C29 (as claimed): after the three passes of a first run, a flatten or
\* squeeze node to which add_features_calculator gave a multiplying calculator
\* has itself as its input_features_set_by, and any other flatten or squeeze
\* node has the input_features_set_by of its predecessor.
C29_ReshapePointsAtItself ==
    (pass = "done" /\ run = 1) =>
        \A i \in NodeIds(g) :
            (Reshaping(flags, i) /\ ifsb[i] # NoRef) =>
                ifsb[i] = IF MultipliesUpstream(g, heap, fc, i)
                          THEN NodeRef(i)
                          ELSE ifsb[g[i].inputs[1]]

\* C29 (amended): a flatten or squeeze node never has itself as its
\* input_features_set_by: it gets the back-reference its own first predecessor
\* dictates, the predecessor itself when that is an input or a features-
\* defining node.  It is the node that follows it (a node
\* that is no concatenation and has the flatten or squeeze node as its first
\* predecessor) that points at the flatten or squeeze node when that node's
\* start_dim / dim is 1 or the last dimension, and that otherwise has the
\* flatten or squeeze node's own input_features_set_by; on a first run these
\* are exactly the cases in which add_features_calculator gave the flatten or
\* squeeze node a multiplying calculator or its predecessor's calculator.
C29_SuccessorPointsAtReshape ==
    /\ \A i \in NodeIds(g) : Reshaping(flags, i) => ifsb[i] # NodeRef(i)
    /\ \A i \in NodeIds(g) :
           (/\ Reshaping(flags, i) /\ ifsb[i] # NoRef
            /\ flags[g[i].inputs[1]]["features_defining"]) =>
               ifsb[i] = NodeRef(g[i].inputs[1])
    /\ \A i \in NodeIds(g) :
           (/\ ifsb[i] # NoRef /\ g[i].inputs # <<>>
            /\ ~flags[i]["features_concatenate"]
            /\ Reshaping(flags, g[i].inputs[1])) =>
               LET prev == g[i].inputs[1]
               IN /\ ifsb[i] = IF TouchesChannels(g, prev)
                               THEN NodeRef(prev)
                               ELSE ifsb[prev]
                  /\ run = 1 =>
                         (TouchesChannels(g, prev) <=>
                              MultipliesUpstream(g, heap, fc, prev))

\* input (1, 32, 5, 3) -> flatten(start_dim = 1) -> ReLU: the ReLU points at
\* the flatten, the flatten at the input
C29_Witness ==
    /\ pass = "done" /\ run = 1 /\ Len(g) = 3
    /\ g[1].shape = <<1, 32, 5, 3>>
    /\ is_flatten(g[2]) /\ StartDimOf(g[2]) = Some(1)
    /\ g[3].inputs = <<2>>
    /\ MultipliesUpstream(g, heap, fc, 2)
    /\ ifsb[3] = NodeRef(2) /\ ifsb[2] = NodeRef(1)

\* node i is flagged features-propagating and has a predecessor
Propagating(i) ==
    /\ HasFlags(flags, i) /\ flags[i]["features_propagating"]
    /\ ~flags[i]["features_concatenate"] /\ g[i].inputs # <<>>

\* C30 (as claimed): after the three passes, every features-propagating node
\* has the input_features_set_by of its predecessor, whatever the predecessor.
C30_PropagatingForwardsPredecessor ==
    pass = "done" =>
        \A i \in NodeIds(g) :
            Propagating(i) => ifsb[i] = ifsb[g[i].inputs[1]]

\* C30 (amended): a features-propagating node that has an
\* input_features_set_by has it by the kind of its first predecessor: the
\* predecessor itself when the predecessor is a concatenation, a
\* features-defining node, or a flatten or squeeze node whose start_dim / dim
\* is 1 or the last dimension; the predecessor's own input_features_set_by
\* when the predecessor is any other flatten or squeeze node or a
\* features-propagating node.  When the predecessor has none of these flags (a
\* shared-input node among them), associate_input_features raises the
\* unsupported-node error at the features-propagating node, which is left
\* without input_features_set_by on a first run.
C30_PropagatingFollowsPredecessorKind ==
    /\ \A i \in NodeIds(g) :
           (Propagating(i) /\ ifsb[i] # NoRef) =>
               LET prev == g[i].inputs[1]
                   f == flags[prev]
               IN ifsb[i] =
                      IF f["flatten"] \/ f["squeeze"]
                      THEN (IF TouchesChannels(g, prev) THEN NodeRef(prev)
                            ELSE ifsb[prev])
                      ELSE IF f["features_concatenate"] \/ f["features_defining"]
                      THEN NodeRef(prev)
                      ELSE IF f["features_propagating"] THEN ifsb[prev]
                      ELSE NoRef
    /\ (/\ pass = "associate" /\ err = "ValueError: Unsupported node"
        /\ Propagating(errNode)) =>
           LET f == flags[g[errNode].inputs[1]]
           IN /\ ~(f["flatten"] \/ f["squeeze"] \/ f["features_concatenate"]
                   \/ f["features_defining"] \/ f["features_propagating"])
              /\ ifsb[g[errNode].inputs[1]] # NoRef
              /\ run = 1 => ifsb[errNode] = NoRef

\* input -> convolution -> ReLU: the ReLU points at the convolution, the
\* convolution at the input
C30_Witness ==
    /\ pass = "done" /\ run = 1 /\ Len(g) = 3
    /\ g[2].target = "Conv2d" /\ g[3].target = "ReLU" /\ g[3].inputs = <<2>>
    /\ Propagating(3)
    /\ ifsb[3] = NodeRef(2) /\ ifsb[2] = NodeRef(1)

\* the flatten or squeeze node i alters the channel dimension of its input:
\* the range it merges starts at dimension 1, or it squeezes dimension 1
\* (negative indices count from the end)
AltersChannels(gr, i) ==
    IF is_flatten(gr[i]) THEN MergeStart(gr, i) = 1
    ELSE DimOf(gr[i]) # None /\ SqueezedDim(gr, i) = 1

\* C31 (as claimed): after the three passes of a first run, an input node has
\* itself as input_features_set_by, and a node n that is no concatenation and
\* has a first predecessor p has p when p is features-defining, a
\* concatenation, or a flatten or squeeze node that altered the channel
\* dimension, and has the input_features_set_by of p when p is
\* features-propagating or a flatten or squeeze node that did not alter it.
C31_BackReferenceByPredecessor ==
    (pass = "done" /\ run = 1) =>
        \A n \in NodeIds(g) :
            IF g[n].inputs = <<>>
            THEN g[n].op = "placeholder" => ifsb[n] = NodeRef(n)
            ELSE LET p == g[n].inputs[1]
                 IN (~flags[n]["features_concatenate"] /\ ifsb[n] # NoRef) =>
                        IF Reshaping(flags, p)
                        THEN ifsb[n] = IF AltersChannels(g, p) THEN NodeRef(p)
                                       ELSE ifsb[p]
                        ELSE IF flags[p]["features_concatenate"]
                                \/ flags[p]["features_defining"]
                        THEN ifsb[n] = NodeRef(p)
                        ELSE flags[p]["features_propagating"] =>
                                 ifsb[n] = ifsb[p]

\* C32: no step of add_features_calculator or associate_input_features changes
\* the flags of any node, and no step of associate_input_features changes the
\* features_calculator of any node or any calculator object.
C32_LaterPassesKeepEarlierMetadata ==
    [][/\ pass \in {"propagate", "associate"} => flags' = flags
       /\ pass = "associate" => fc' = fc /\ heap' = heap]_vars

\* the three passes have run over a three-node graph: every node has its
\* calculator and its back-reference, and the flags are those
\* add_node_properties wrote
C32_Witness ==
    /\ pass = "done" /\ run = 1 /\ Len(g) = 3
    /\ \A i \in NodeIds(g) : fc[i] # 0 /\ ifsb[i] # NoRef
    /\ flags = Annotated(g)
    /\ \E i \in NodeIds(g) : flags[i]["features_propagating"]

(***************************************************************************)
(* The one-pass alternative to the work queue: the rules of                *)
(* add_features_calculator evaluated once per node along a topological     *)
(* order of the graph.                                                     *)
(***************************************************************************)
Max(S) == CHOOSE x \in S : \A y \in S : y <= x

\* the order of the nodes in the graph (every node comes after its inputs)
IndexOrder(gr) == [i \in NodeIds(gr) |-> i]

\* the topological order that always takes the last node whose inputs have
\* all been taken
RECURSIVE LastFirstOrder(_, _)
LastFirstOrder(gr, taken) ==
    LET avail == {i \in NodeIds(gr) \ Range(taken) :
                     Range(gr[i].inputs) \subseteq Range(taken)}
    IN IF avail = {} THEN taken
       ELSE LastFirstOrder(gr, Append(taken, Max(avail)))

TopoOrders(gr) == {IndexOrder(gr), LastFirstOrder(gr, <<>>)}

\* one evaluation of the rules for node i on the calculators built so far
EvalNode(gr, rules, fl, st, i) ==
    LET r == BuildCalculator(gr, rules, fl, st.calc, i)
    IN IF st.err # "none" THEN st
       ELSE IF r.out = "raise" THEN [st EXCEPT !.err = r.err]
       ELSE IF r.out = "new"
       THEN [h |-> Append(st.h, r.obj),
             calc |-> [st.calc EXCEPT ![i] = Len(st.h) + 1],
             err |-> "none"]
       ELSE [st EXCEPT !.calc[i] = r.id]

RECURSIVE EvalAlong(_, _, _, _, _)
EvalAlong(gr, rules, fl, st, order) ==
    IF order = <<>> THEN st
    ELSE EvalAlong(gr, rules, fl, EvalNode(gr, rules, fl, st, Head(order)),
                   Tail(order))

TopoEval(gr, rules, fl, order) ==
    EvalAlong(gr, rules, fl,
              [h |-> <<>>, calc |-> NoCalculators(gr), err |-> "none"], order)

\* C33: on a graph of supported kinds all of whose nodes are reachable from an
\* input, on a first run: when add_features_calculator has returned, the
\* one-pass evaluation along a topological order raises nothing and every node
\* carries a calculator whose value is the value the one-pass evaluation gives
\* the node; when add_features_calculator has raised, so does the one-pass
\* evaluation.
C33_QueuePassEqualsTopologicalPass ==
    (run = 1 /\ Supported(g, extra_rules) /\ Reachable(g) = NodeIds(g)) =>
        \A order \in TopoOrders(g) :
            LET t == TopoEval(g, extra_rules, flags, order)
            IN /\ pass \in {"associate", "done"} =>
                      /\ t.err = "none"
                      /\ \A i \in NodeIds(g) :
                             /\ fc[i] # 0
                             /\ Features(heap, fc[i]) = Features(t.h, t.calc[i])
               /\ (pass = "propagate" /\ err # "none") => t.err # "none"

\* the queue pass has returned on a graph where it processed a node more
\* than once (it built more calculators than the one-pass evaluation), and
\* the two topological orders differ
C33_Witness ==
    /\ pass = "associate" /\ run = 1 /\ g = ResidualCatGraph
    /\ Len(heap) > Len(TopoEval(g, extra_rules, flags, IndexOrder(g)).h)
    /\ IndexOrder(g) # LastFirstOrder(g, <<>>)
    /\ \A i \in NodeIds(g) :
           Features(heap, fc[i]) =
               Features(TopoEval(g, extra_rules, flags, IndexOrder(g)).h,
                        TopoEval(g, extra_rules, flags, IndexOrder(g)).calc[i])

\* the calculator of node i (a node with predecessors that no rule answers
\* for) is built on the calculators its predecessors carry now
BuiltOnCurrent(i) ==
    LET c == heap[fc[i]]
        p == g[i].inputs[1]
        f == flags[i]
    IN IF f["flatten"] \/ f["squeeze"]
       THEN fc[i] = fc[p] \/ (c.kind = "Flatten" /\ c.refs = <<fc[p]>>)
       ELSE IF f["features_concatenate"]
       THEN /\ c.kind = "Concat"
            /\ c.refs = [k \in DOMAIN g[i].inputs |-> fc[g[i].inputs[k]]]
       ELSE IF f["shared_input_features"] THEN fc[i] = fc[p]
       ELSE IF f["features_defining"] THEN c.kind = "Const" /\ c.refs = <<>>
       ELSE fc[i] = fc[p]

\* C34: when add_features_calculator has returned, on a first or a second run,
\* the calculator of every node is the predecessor's present calculator
\* (passthrough and shared-input nodes) or an object built on the present
\* calculators of the node's predecessors (flatten, squeeze, concatenation):
\* none refers to an object that a predecessor has since replaced.
C34_NoStaleCalculator ==
    pass \in {"associate", "done"} =>
        \A i \in NodeIds(g) :
            (fc[i] # 0 /\ g[i].inputs # <<>> /\ Unclaimed(g[i])) =>
                BuiltOnCurrent(i)

\* the calculator objects no node carries any more
Replaced == (1 .. Len(heap)) \ Range(fc)

\* the second run has replaced the calculators of the first on a graph whose
\* concatenation was processed while one of its predecessors still carried
\* its calculator of the first run; a Const and a Concat object are left over
C34_Witness ==
    /\ pass = "associate" /\ run = 2 /\ g = JoinGraph(TCat, <<1, 3>>)
    /\ \E a \in Replaced : heap[a].kind = "Const"
    /\ \E b \in Replaced :
           /\ heap[b].kind = "Concat"
           /\ \E k \in DOMAIN heap[b].refs : heap[b].refs[k] \in Replaced
    /\ BuiltOnCurrent(4) /\ fc[5] = fc[4]

\* C35 (as claimed): after the three passes of a first run, for every flatten
\* or squeeze node f and every node n whose first predecessor is f:
\* n's input_features_set_by is f if and only if f's calculator is a
\* multiplying calculator over its predecessor's, and is f's own
\* input_features_set_by if and only if f carries its predecessor's
\* calculator.
C35_PassesAgreeForEverySuccessor ==
    (pass = "done" /\ run = 1) =>
        \A n \in NodeIds(g) :
            (g[n].inputs # <<>> /\ Reshaping(flags, g[n].inputs[1])) =>
                LET f == g[n].inputs[1]
                IN /\ ifsb[n] = NodeRef(f) <=> MultipliesUpstream(g, heap, fc, f)
                   /\ ifsb[n] = ifsb[f] <=> fc[f] = fc[g[f].inputs[1]]

\* C35 (amended): the same for every node n that is no concatenation (f a
\* flatten or squeeze node that no extension rule answers for); a
\* concatenation whose first predecessor is f has the list of its
\* predecessors, whatever f's calculator.
C35_PassesAgreeOnChannelReshape ==
    (pass = "done" /\ run = 1) =>
        \A n \in NodeIds(g) :
            (/\ g[n].inputs # <<>> /\ Reshaping(flags, g[n].inputs[1])
             /\ Unclaimed(g[g[n].inputs[1]])) =>
                LET f == g[n].inputs[1]
                IN IF flags[n]["features_concatenate"]
                   THEN ifsb[n] = ListRef(g[n].inputs)
                   ELSE /\ ifsb[n] = NodeRef(f) <=>
                               MultipliesUpstream(g, heap, fc, f)
                        /\ ifsb[n] = ifsb[f] <=> fc[f] = fc[g[f].inputs[1]]
                        /\ ifsb[n] = NodeRef(f) \/ ifsb[n] = ifsb[f]

\* input (1, 64, 1, 10) -> squeeze(2) -> ReLU: the squeeze carries the
\* input's calculator and the ReLU the squeeze's back-reference
C35_Witness ==
    /\ pass = "done" /\ run = 1 /\ Len(g) = 3
    /\ g[1].shape = <<1, 64, 1, 10>>
    /\ is_squeeze(g[2]) /\ DimOf(g[2]) = Some(2) /\ g[3].inputs = <<2>>
    /\ fc[2] = fc[1] /\ ~MultipliesUpstream(g, heap, fc, 2)
    /\ ifsb[3] = ifsb[2] /\ ifsb[3] # NodeRef(2)

\* the node just popped by associate_input_features is no concatenation and
\* its first predecessor is a shared-input node (none of the five flags the
\* pass tests) that has its input_features_set_by
PoppedAfterSharedInput ==
    /\ pass = "associate" /\ popped # 0 /\ g[popped].inputs # <<>>
    /\ ~flags[popped]["features_concatenate"]
    /\ ifsb[g[popped].inputs[1]] # NoRef
    /\ LET f == flags[g[popped].inputs[1]]
       IN /\ f["shared_input_features"]
          /\ ~(f["flatten"] \/ f["squeeze"] \/ f["features_concatenate"]
               \/ f["features_defining"] \/ f["features_propagating"])

\* C36: popping such a node ends associate_input_features in the
\* unsupported-node error, and the error names the popped node, not its
\* shared-input predecessor; the popped node gets no input_features_set_by
\* on a first run.
C36_SuccessorOfSharedInputRaises ==
    PoppedAfterSharedInput =>
        /\ err = "ValueError: Unsupported node"
        /\ event = "raise"
        /\ errNode = popped /\ errNode # g[popped].inputs[1]
        /\ run = 1 => ifsb[popped] = NoRef

\* the ReLU after the add of JoinGraph has been popped
C36_Witness ==
    /\ PoppedAfterSharedInput /\ run = 1
    /\ g = JoinGraph(TAdd, <<3, 1>>)
    /\ popped = 5 /\ errNode = 5 /\ ifsb[4] = NodeRef(2)

\* an add or sub call with at most one predecessor in the graph
ConstOperandAdd(n) ==
    /\ n.op = "call_function"
    /\ n.target \in {"torch.add", "operator.add", "torch.sub", "operator.sub"}
    /\ Len(n.inputs) <= 1

\* C37: an add or sub call with at most one graph predecessor satisfies none
\* of the six semantic predicates; add_node_properties visits it without
\* raising and writes six false semantic flags; add_features_calculator, when
\* it processes the node (no extension rule answering for it), raises the
\* unsupported-node error naming the node and attaches no calculator.
C37_AddWithConstantIsUnsupported ==
    \A i \in NodeIds(g) :
        ConstOperandAdd(g[i]) =>
            /\ Unclassified(g[i])
            /\ HasFlags(flags, i) => \A f \in SemanticFlags : ~flags[i][f]
            /\ (pass = "annotate" /\ popped = i) =>
                   err = "none" /\ HasFlags(flags, i)
            /\ (pass = "propagate" /\ popped = i /\ event # "skip"
                /\ Unclaimed(g[i])) =>
                   /\ err = "ValueError: Unsupported node"
                   /\ errNode = i
                   /\ fc[i] = 0

\* x + 1 after the input: propagation has failed on the add
C37_Witness ==
    /\ pass = "propagate" /\ err = "ValueError: Unsupported node" /\ run = 1
    /\ errNode = 2 /\ popped = 2
    /\ ConstOperandAdd(g[2]) /\ g[2].inputs = <<1>>
    /\ \A f \in SemanticFlags : ~flags[2][f]
    /\ flags[2]["zero_or_one_input"]
    /\ fc[1] # 0 /\ fc[2] = 0

\* C38 (as claimed): every node a pass pops is a node of the graph
\* fx_to_nx_graph returned, and asking for its successors never fails.
C38_SuccessorsNeverFails ==
    /\ popped # 0 => popped \in NxNodes(g)
    /\ err # "NetworkXError"

(***************************************************************************)
(* SuperNet.get_supernetModules (flexnas/methods/supernet/supernet.py).    *)
(* A model is a tree of modules: cls is the class of the module, kids its  *)
(* children in registration order.  A child is named by its position, a    *)
(* descendant by the sequence of the names on the way to it (the dotted    *)
(* name of named_modules), and a module is identified by its path from the *)
(* root model.  sn holds the model and exclude_names given to SuperNet and *)
(* the list get_supernetModules filled.                                    *)
(***************************************************************************)
\* levels of containers in a model, the root included
MaxNest == 3
\* children of a container
MaxKids == 2

\* a module: kids are its children in order, named by their position in a
\* Sequential or a ModuleList; extra holds the children add_module registered
\* under a name that is not the position of a child, as [name, module]
Layer == [cls |-> "Conv2d", kids |-> <<>>, extra |-> <<>>]

\* SuperNetModule.__init__: the candidate layers are kept in a ModuleList,
\* the child "input_layers" of the module
SuperNetModule ==
    [cls |-> "SuperNetModule",
     kids |-> <<[cls |-> "ModuleList", kids |-> <<Layer, Layer>>, extra |-> <<>>]>>,
     extra |-> <<>>]

Container(kids) == [cls |-> "Sequential", kids |-> kids, extra |-> <<>>]

\* the children lists of a container above at most d - 1 further levels of
\* containers: layers and SuperNetModules, and at most one container
RECURSIVE KidLists(_)
KidLists(d) ==
    LET plain == UNION {[1 .. n -> {Layer, SuperNetModule}] : n \in 1 .. MaxKids}
        inner == IF d = 1 THEN {} ELSE {Container(ks) : ks \in KidLists(d - 1)}
    IN plain \cup UNION {{[ks EXCEPT ![j] = b] : j \in DOMAIN ks, b \in inner} :
                            ks \in plain}

Models == {Container(ks) : ks \in KidLists(MaxNest)}

ExcludeChoices == {{}, {<<1>>}, {<<1, 1>>}, {<<1, 1, 1>>}}

\* the module at path p of tree t
RECURSIVE At(_, _)
At(t, p) == IF p = <<>> THEN t ELSE At(t.kids[Head(p)], Tail(p))

\* model.named_modules(): the names of the module and of its descendants,
\* parents before children, children in order
RECURSIVE NamedModules(_, _)
RECURSIVE NamedKids(_, _, _)
NamedKids(t, prefix, k) ==
    IF k > Len(t.kids) THEN <<>>
    ELSE NamedModules(t.kids[k], Append(prefix, k)) \o NamedKids(t, prefix, k + 1)
NamedModules(t, prefix) == <<prefix>> \o NamedKids(t, prefix, 1)

\* get_supernetModules(target_modules, model, exclude_names) for the module at
\* path m of the root model: the entries it appends to target_modules
RECURSIVE get_supernetModules(_, _, _)
RECURSIVE VisitNamed(_, _, _, _)
RECURSIVE VisitChildren(_, _, _, _)
VisitChildren(root, d, exclude_names, k) ==
    IF k > Len(At(root, d).kids) THEN <<>>
    ELSE get_supernetModules(root, d \o <<k>>, exclude_names)
         \o VisitChildren(root, d, exclude_names, k + 1)
VisitNamed(root, m, exclude_names, names) ==
    IF names = <<>> THEN <<>>
    ELSE LET name == Head(names)
             module == At(root, m \o name)
         IN (IF name = <<>> THEN <<>>
             ELSE IF module.cls = "SuperNetModule"
             THEN (IF name \notin exclude_names
                   THEN <<[name |-> name, module |-> m \o name]>>
                   ELSE <<>>)
             ELSE IF module.kids # <<>>
             THEN VisitChildren(root, m \o name, exclude_names, 1)
             ELSE <<>>)
            \o VisitNamed(root, m, exclude_names, Tail(names))
get_supernetModules(root, m, exclude_names) ==
    VisitNamed(root, m, exclude_names, NamedModules(At(root, m), <<>>))

graphVars == <<g, extra_rules, pass, run, queue, popped, event, flags, heap, fc,
               ifsb, err, errNode, first, called, deferred>>

\* SuperNet.__init__ is entered with a model and exclude_names
InitSuperNet ==
    /\ \E model \in Models, exclude_names \in ExcludeChoices :
           sn = [phase |-> "init", model |-> model,
                 exclude_names |-> exclude_names, target_modules |-> <<>>]
    /\ g = <<>> /\ extra_rules = <<>> /\ pass = "none" /\ run = 0
    /\ queue = <<>> /\ popped = 0 /\ event = "none" /\ flags = <<>>
    /\ heap = <<>> /\ fc = <<>> /\ ifsb = <<>> /\ err = "none" /\ errNode = 0
    /\ first = <<>> /\ called = <<>> /\ deferred = {}

\* self._target_modules = self.get_supernetModules(target_modules, model, exclude_names)
GetSupernetModules ==
    /\ sn.phase = "init"
    /\ sn' = [sn EXCEPT !.phase = "collected",
                        !.target_modules =
                            get_supernetModules(sn.model, <<>>, sn.exclude_names)]
    /\ UNCHANGED graphVars

\* the child of module t named c, None when t has no child of that name; the
\* one child a SuperNetModule has from its construction is named
\* "input_layers", never by a number
Child(t, c) ==
    IF t.cls # "SuperNetModule" /\ c <= Len(t.kids) THEN Some(t.kids[c])
    ELSE LET hits == {k \in DOMAIN t.extra : t.extra[k].name = c}
         IN IF hits = {} THEN None
            ELSE Some(t.extra[CHOOSE k \in hits : TRUE].module)

\* model.get_submodule(target): follows the dotted name p child by child,
\* None when a component names no child (AttributeError)
RECURSIVE get_submodule(_, _)
get_submodule(t, p) ==
    IF p = <<>> THEN Some(t)
    ELSE LET c == Child(t, Head(p))
         IN IF c = None THEN None ELSE get_submodule(c[1], Tail(p))

\* parent.add_module(name, module): a child of that name is replaced in its
\* place, a new name is registered after the children there are
add_module(t, c, m) ==
    LET hits == {k \in DOMAIN t.extra : t.extra[k].name = c}
    IN IF t.cls # "SuperNetModule" /\ c <= Len(t.kids)
       THEN [t EXCEPT !.kids[c] = m]
       ELSE IF hits # {}
       THEN [t EXCEPT !.extra[CHOOSE k \in hits : TRUE].module = m]
       ELSE IF t.cls # "SuperNetModule" /\ c = Len(t.kids) + 1 /\ t.extra = <<>>
       THEN [t EXCEPT !.kids = Append(@, m)]
       ELSE [t EXCEPT !.extra = Append(@, [name |-> c, module |-> m])]

\* SuperNetModule.export(): the candidate layer of the largest alpha
export(t, index) == t.kids[1].kids[index]

\* the loop of arch_export from entry k on: the seed is changed in place, so
\* the entries before a failing one stay exported.  index[k] is the argmax
\* of the alpha of entry k.  A parent is a child of the root, and changing
\* it in place is the root with that child replaced.
RECURSIVE ExportFrom(_, _, _, _)
ExportFrom(model, entries, index, k) ==
    IF k > Len(entries) THEN [model |-> model, err |-> "none"]
    ELSE LET name == entries[k].name
             submodule == get_submodule(model, name)
             last == name[Len(name)]
             parent == get_submodule(model, <<name[Len(name) - 1]>>)
             fail == [model |-> model, err |-> "AttributeError"]
         IN IF submodule = None THEN fail
            ELSE IF submodule[1].cls # "SuperNetModule" THEN fail
            ELSE IF Len(name) > 1
            THEN (IF parent = None THEN fail
                  ELSE ExportFrom(
                           add_module(model, name[Len(name) - 1],
                                      add_module(parent[1], last,
                                                 export(submodule[1], index[k]))),
                           entries, index, k + 1))
            ELSE ExportFrom(add_module(model, last, export(submodule[1], index[k])),
                            entries, index, k + 1)

\* SuperNet.arch_export(): every entry of _target_modules is looked up by its
\* name from the seed and replaced by the layer it exports
ArchExport ==
    /\ sn.phase = "collected"
    /\ \E index \in [DOMAIN sn.target_modules -> 1 .. 2] :
           LET r == ExportFrom(sn.model, sn.target_modules, index, 1)
           IN /\ sn' = [sn EXCEPT !.phase = "exported", !.model = r.model]
              /\ err' = r.err
    /\ UNCHANGED <<g, extra_rules, pass, run, queue, popped, event, flags, heap, fc,
                   ifsb, errNode, first, called, deferred>>

NextSuperNet ==
    \/ GetSupernetModules
    \/ ArchExport

SpecSuperNet == InitSuperNet /\ [][NextSuperNet]_vars

\* the SuperNetModules of the model, by their names relative to the root
SuperNetModulesOf(root) ==
    {p \in Range(NamedModules(root, <<>>)) : At(root, p).cls = "SuperNetModule"}

\* C39 (as claimed): the list get_supernetModules returns holds each
\* SuperNetModule of the model whose name relative to the root is not in
\* exclude_names exactly once, under that name, and nothing else.
C39_EachSuperNetModuleOnce ==
    sn.phase = "collected" =>
        /\ \A k \in DOMAIN sn.target_modules :
               /\ sn.target_modules[k].name = sn.target_modules[k].module
               /\ sn.target_modules[k].module \in
                      SuperNetModulesOf(sn.model) \ sn.exclude_names
        /\ \A p \in SuperNetModulesOf(sn.model) \ sn.exclude_names :
               Cardinality({k \in DOMAIN sn.target_modules :
                               sn.target_modules[k].module = p}) = 1

====
